---- MODULE Spec2Model ----
(***************************************************************************)
(* Model of the SSH deployment manager (package impl, manager.go) and of   *)
(* its routing algorithm.  Addresses are modelled as the naturals          *)
(* 1..MaxAddrs, address i standing for the i-th address string in          *)
(* lexicographic order, so that sort.Strings is the numeric sort.          *)
(* uint64 keys are modelled exactly: arithmetic is done on bit vectors     *)
(* (TLC integers are 32 bit wide) and a key is stored as four 16-bit       *)
(* limbs, most significant first, so <<32768,0,0,0>> is 2^63.              *)
(***************************************************************************)
EXTENDS Integers, Sequences, FiniteSets, TLC

\* ---------------------------------------------------------------- bounds
MaxAddrs == 5
MaxReplicas == 2
MaxVersion == 3

\* ------------------------------------------------------- program constants
KeyBits == 64
MantissaBits == 53
LimbBits == KeyBits \div 4

Addrs == 1..MaxAddrs
ReplicaAddrs == 1..MaxReplicas
\* The pid of the replica process listening on an address.
PidOf(address) == 100 + address
Readers == {"r1", "r2"}
Groups == {"main", "g"}
Components == {"main", "c1", "c2"}
\* The application's configuration: the colocation group of each component
\* and whether the component is routed.
GroupOf(component) == IF component = "main" THEN "main" ELSE "g"
IsRouted(component) == component # "main"
locations == <<"loc1", "loc2">>

\* ------------------------------------------------------ uint64 arithmetic
\* A bit vector is a sequence of KeyBits+1 bits, least significant first
\* (bit i of the number is element i+1); the extra bit lets it hold
\* float64(MaxUint64), which is 2^64.
NumBits == KeyBits + 1
\* const minSliceKey = 0
minSliceKey == [i \in 1..NumBits |-> 0]
BOne == [i \in 1..NumBits |-> IF i = 1 THEN 1 ELSE 0]
\* math.MaxUint64
maxSliceKey == [i \in 1..NumBits |-> IF i <= KeyBits THEN 1 ELSE 0]

\* Number of significant bits of x.
BitLen(x) ==
  IF \A i \in 1..NumBits : x[i] = 0 THEN 0
  ELSE CHOOSE i \in 1..NumBits :
         x[i] = 1 /\ \A j \in (i+1)..NumBits : x[j] = 0

\* Bit vectors are kept as explicit tuples (the concatenation with <<>>
\* evaluates the function once).
Shr(x, k) ==
  [i \in 1..NumBits |-> IF i + k <= NumBits THEN x[i + k] ELSE 0] \o <<>>
Shl(x, k) ==
  [i \in 1..NumBits |-> IF i > k THEN x[i - k] ELSE 0] \o <<>>

\* The carry into bit i of x + y: some lower bit generates a carry and all
\* bits between propagate it.
CarryInto(x, y, i) ==
  \E j \in 1..(i-1) : /\ x[j] + y[j] = 2
                      /\ \A k \in (j+1)..(i-1) : x[k] + y[k] >= 1

\* The borrow into bit i of x - y.
BorrowInto(x, y, i) ==
  \E j \in 1..(i-1) : /\ x[j] < y[j]
                      /\ \A k \in (j+1)..(i-1) : x[k] = y[k]

\* x + y on NumBits bits
BAdd(x, y) ==
  [i \in 1..NumBits |->
     (x[i] + y[i] + (IF CarryInto(x, y, i) THEN 1 ELSE 0)) % 2] \o <<>>

\* uint64 truncation
Trunc64(x) ==
  [i \in 1..NumBits |-> IF i <= KeyBits THEN x[i] ELSE 0] \o <<>>

\* uint64 addition and subtraction, wrapping modulo 2^64
U64Add(x, y) == Trunc64(BAdd(x, y))
U64Sub(x, y) ==
  Trunc64([i \in 1..NumBits |->
             (x[i] + 2 - y[i] - (IF BorrowInto(x, y, i) THEN 1 ELSE 0)) % 2])

\* float64(x) for a uint64 x: round to a 53 bit significand, ties to even.
Float64(x) ==
  LET n == BitLen(x) IN
  IF n <= MantissaBits THEN x
  ELSE LET s == n - MantissaBits
           q == Shr(x, s)
           roundUp == /\ x[s] = 1
                      /\ \/ \E j \in 1..(s-1) : x[j] = 1
                         \/ q[1] = 1
       IN Shl(IF roundUp THEN BAdd(q, BOne) ELSE q, s)

\* uint64(math.Floor(0.5*f)) for a non-negative integral float64 f <= 2^64
HalfFloor(f) == Shr(f, 1)

\* Variant: the offset curr[0] is not added to the half width.
midPointOf_noOffset(lo, hi) == HalfFloor(Float64(U64Sub(hi, lo)))

\* Variant: the half width is computed in integer arithmetic, (hi-lo)/2.
midPointOf_intDiv(lo, hi) == U64Add(lo, Shr(U64Sub(hi, lo), 1))

\* curr[0] + uint64(math.Floor(0.5*float64(curr[1]-curr[0])))
midPointOf(lo, hi) == U64Add(lo, HalfFloor(Float64(U64Sub(hi, lo))))

BLess(x, y) ==
  \E i \in 1..NumBits : /\ x[i] < y[i]
                        /\ \A j \in (i+1)..NumBits : x[j] = y[j]

\* The stored form of a key: KeyBits/LimbBits limbs, most significant first.
NumLimbs == KeyBits \div LimbBits
RECURSIVE LimbValue(_, _, _)
LimbValue(x, base, i) ==
  IF i = 0 THEN 0 ELSE LimbValue(x, base, i - 1) + x[base + i] * 2^(i-1)
ToKey(x) ==
  [j \in 1..NumLimbs |->
     LimbValue(x, (NumLimbs - j) * LimbBits, LimbBits)] \o <<>>

KeyZero == ToKey(minSliceKey)

\* ----------------------------------------------------------- sort.Strings
RECURSIVE InsertString(_, _)
InsertString(x, s) ==
  IF s = <<>> THEN <<x>>
  ELSE IF x <= Head(s) THEN <<x>> \o s
  ELSE <<Head(s)>> \o InsertString(x, Tail(s))

RECURSIVE SortStrings(_)
SortStrings(s) ==
  IF s = <<>> THEN <<>> ELSE InsertString(Head(s), SortStrings(Tail(s)))

\* --------------------------------------------------------- nextPowerOfTwo
\* math.Ceil(math.Log2(float64(x))) for x >= 1
CeilLog2(x) == CHOOSE k \in 0..x : 2^k >= x /\ (k = 0 \/ 2^(k-1) < x)

\* Variant: math.Floor instead of math.Ceil.
nextPowerOfTwo_floor(x) ==
  IF \E k \in 0..x : 2^k = x THEN x ELSE 2^(CeilLog2(x) - 1)

nextPowerOfTwo(x) ==
  IF \E k \in 0..x : 2^k = x THEN x ELSE 2^CeilLog2(x)

\* ------------------------------------------------------------ routingAlgo
\* A split is a pair [lo, hi] of bit vectors.
RECURSIVE SplitLoop(_, _)
SplitLoop(splits, numSlices) ==
  LET curr == Head(splits)
      midPoint == midPointOf(curr.lo, curr.hi)
      splitl == [lo |-> curr.lo, hi |-> midPoint]
      splitr == [lo |-> midPoint, hi |-> curr.hi]
      next == Tail(splits) \o <<splitl, splitr>>
  IN IF Len(next) # numSlices THEN SplitLoop(next, numSlices) ELSE next

RECURSIVE InsertSplit(_, _)
InsertSplit(x, s) ==
  IF s = <<>> THEN <<x>>
  ELSE IF ~BLess(Head(s).lo, x.lo) THEN <<x>> \o s
  ELSE <<Head(s)>> \o InsertSplit(x, Tail(s))

RECURSIVE SortSplits(_)
SortSplits(s) ==
  IF s = <<>> THEN <<>> ELSE InsertSplit(Head(s), SortSplits(Tail(s)))

\* Split slices in equal subslices in order to generate numSlices, then sort
\* them by start key (lines 647-663).
SplitsFor(numSlices) ==
  SortSplits(SplitLoop(<<[lo |-> minSliceKey, hi |-> maxSliceKey]>>, numSlices))

\* The start keys of SplitsFor(2^k) in stored form, evaluated once for each
\* slice count that MaxAddrs candidates can produce (element k is for 2^k
\* slices).
SplitKeys ==
  [k \in 1..CeilLog2(MaxAddrs) |->
     LET sp == SplitsFor(2^k)
     IN [i \in 1..(2^k) |-> ToKey(sp[i].lo)] \o <<>>] \o <<>>

\* The k with 2^k = n, for a power of two n.
Log2(n) == CHOOSE k \in 0..n : 2^k = n

\* The body of routingAlgo after line 620, given the candidates as they are
\* after line 626 and the index of the candidate that gets the first slice.
assignSlices(newAssignment, candidates, first) ==
  LET n == Len(candidates)
  IN IF n = 0 THEN [newAssignment EXCEPT !.slices = <<>>]
     ELSE IF n = 1
       THEN [newAssignment EXCEPT
               !.slices = <<[start |-> KeyZero, replicas |-> candidates]>>]
     ELSE LET numSlices == nextPowerOfTwo(n)
              keys == SplitKeys[Log2(numSlices)]
          IN [newAssignment EXCEPT
                !.slices =
                   [i \in 1..numSlices |->
                      [start |-> keys[i],
                       replicas |->
                          <<candidates[((first + i - 1) % n) + 1]>>]]]

\* Variant: the candidates are not sorted.
routingAlgo_noSort(currAssignment, cands) ==
  assignSlices([currAssignment EXCEPT !.version = @ + 1], cands, 0)

\* Variant: the round robin starts at the second candidate.
routingAlgo_fromSecond(currAssignment, cands) ==
  assignSlices([currAssignment EXCEPT !.version = @ + 1],
               SortStrings(cands), 1)

\* Variant: the version is bumped only when the slices change.
routingAlgo_keepVersion(currAssignment, cands) ==
  LET new == assignSlices(currAssignment, SortStrings(cands), 0)
  IN IF new.slices = currAssignment.slices THEN currAssignment
     ELSE [new EXCEPT !.version = @ + 1]

\* Variant: every slice goes to the first candidate.
routingAlgo_oneOwner(currAssignment, cands) ==
  LET sorted == SortStrings(cands)
      n == Len(sorted)
      new == assignSlices([currAssignment EXCEPT !.version = @ + 1], sorted, 0)
  IN [new EXCEPT
        !.slices = [i \in DOMAIN new.slices |->
                      [new.slices[i] EXCEPT !.replicas = <<sorted[1]>>]]]

\* An assignment is [component, version, slices]; a slice is
\* [start, replicas].
routingAlgo(currAssignment, cands) ==
  assignSlices([currAssignment EXCEPT !.version = @ + 1],
               SortStrings(cands), 0)

\* ------------------------------------------------------------ state
VARIABLES
  appState,      \* versioned record app_version_state: [ver, val]
  routingState,  \* versioned records by routing key: [ver, val]
  started,       \* colocation groups started, by group name
  launched,      \* babysitters launched, by group and location index
  rd,            \* the long-poll callers, by caller id
  ctxDone,       \* TRUE once the manager's context is cancelled
  reqCtxDone,    \* the callers whose request context is cancelled
  startErr,      \* TRUE iff the last startComponent returned an error
  proxies,       \* the manager's proxies, by listener name
  lastExport,    \* the last exportListener request, its reply and error
  proxy,         \* a proxy made by NewProxy outside the manager
  request,       \* the last request the director of that proxy handled
  algoIn,        \* routing algorithm harness: the first call's arguments
  algoOut1,      \* routing algorithm harness: the first call's result
  algoOut2,      \* routing algorithm harness: the second call's result
  algoPc,        \* routing algorithm harness: position
  metrics,       \* the manager's latest metrics, by group and replica id
  ms,            \* the reply of the last Metrics status query
  mu,            \* the goroutine that holds the manager's lock m.mu
  pc,            \* the position of the startup and handler goroutines
  lastWrite,     \* the last write of the manager's state and its writer
  pmu,           \* the goroutine that holds the lock p.mu of the proxy
  pg,            \* the goroutines that call AddBackend and the director
  counter,       \* a Counter
  hist,          \* a Histogram
  mmMu,          \* the goroutine that holds the lock mm.mu of a MetricMap
  metricsMu,     \* the goroutine that holds the lock metricsMu
  mmMetrics,     \* mm.metrics: the metrics of the MetricMap, by labels
  allMetrics,    \* the package's list metrics of every metric
  gt             \* the goroutines that call MetricMap.Get

vars == <<appState, routingState, started, launched, rd, ctxDone,
          reqCtxDone, startErr, proxies, lastExport, proxy, request,
          algoIn, algoOut1, algoOut2, algoPc, metrics, ms,
          mu, pc, lastWrite, pmu, pg, counter, hist,
          mmMu, metricsMu, mmMetrics, allMetrics, gt>>
proxyVars == <<proxies, lastExport, proxy, request>>
mgrVarsButProxy == <<appState, routingState, started, launched, rd, ctxDone,
                     reqCtxDone, startErr>>
mgrVars == <<mgrVarsButProxy, proxyVars>>
algoVars == <<algoIn, algoOut1, algoOut2, algoPc>>
mgrMetricsVars == <<metrics, ms>>
\* The variables no handler of the sections up to the proxy touches.
lockVars == <<mu, pc, lastWrite>>
proxyLockVars == <<pmu, pg>>
metricVars == <<counter, hist>>
metricMapVars == <<mmMu, metricsMu, mmMetrics, allMetrics, gt>>
\* The variables of the proxy's lock and of the metrics package.
pkgVars == <<proxyLockVars, metricVars, metricMapVars>>
extVars == <<mgrMetricsVars, lockVars, pkgVars>>

Range(s) == {s[i] : i \in DOMAIN s}
EmptyMap == <<>>
MapPut(f, k, v) == [x \in DOMAIN f \cup {k} |-> IF x = k THEN v ELSE f[x]]

\* All orders in which a map with key set S can be iterated.
Orders(S) ==
  {o \in [1..Cardinality(S) -> S] : \A i, j \in DOMAIN o : i # j => o[i] # o[j]}

\* ------------------------------------------------------- versioned_map.Map
\* A record of the map is [ver, val]; ver counts the writes of the key and
\* ver = 0 is the empty version "" of a key that was never written.
NoVersion == 0

\* Variant: the value is stored without a new version.
VersionedUpdate_sameVersion(rec, value) == [ver |-> rec.ver, val |-> value]

\* Map.Update: store the value and bump the version of the record.
VersionedUpdate(rec, value) == [ver |-> rec.ver + 1, val |-> value]

\* Variant: a read that was given a version is never woken.
VersionedReadReady_noWake(rec, version) == version = NoVersion

\* Map.Read returns without waiting iff the caller's version is empty or is
\* not the record's current version.
VersionedReadReady(rec, version) == version = NoVersion \/ version # rec.ver

\* ------------------------------------------------------------ manager
routingInfoKey == "routing_entries"
appVersionStateKey == "app_version_state"

\* Variant: one key for the routing records of all groups.
routingKey_shared(group) == <<routingInfoKey, "">>

routingKey(group) == <<routingInfoKey, group>>

\* The state loadAppState substitutes for a record that was never written.
NewAppVersionState == [groups |-> EmptyMap, listeners |-> <<>>]
\* The state loadRoutingState substitutes for a record never written.
EmptyRoutingInfo == [replicas |-> <<>>, assignments |-> <<>>]

\* loadAppState(version): [ready, state, newVersion]; ready is FALSE when the
\* read has to wait.
loadAppState(version) ==
  [ready |-> VersionedReadReady(appState, version),
   state |-> appState.val,
   newVersion |-> appState.ver]

\* Variant: the read is always made with the empty version.
loadRoutingState_emptyVersion(group, version) ==
  LET rec == routingState[routingKey(group)]
  IN [ready |-> VersionedReadReady(rec, NoVersion),
      state |-> rec.val,
      newVersion |-> rec.ver]

\* loadRoutingState(group, version): [ready, state, newVersion]
loadRoutingState(group, version) ==
  LET rec == routingState[routingKey(group)]
  IN [ready |-> VersionedReadReady(rec, version),
      state |-> rec.val,
      newVersion |-> rec.ver]

NewGroup(group) ==
  [name |-> group, components |-> EmptyMap, replicas |-> <<>>,
   replicaPids |-> <<>>, assignments |-> EmptyMap]

\* Variant: the group is made anew on every call.
findOrAddGroup_fresh(state, group) == NewGroup(group)

findOrAddGroup(state, group) ==
  IF group \in DOMAIN state.groups THEN state.groups[group]
  ELSE NewGroup(group)

\* Variant: only the assignments are compared with the stored ones.
updateRoutingInfo_assignmentsOnly(g, info) ==
  LET state == loadRoutingState(g.name, NoVersion).state
  IN IF state.assignments = info.assignments THEN routingState
     ELSE [routingState EXCEPT
             ![routingKey(g.name)] = VersionedUpdate(@, info)]

\* Variant: only the replicas are compared with the stored ones.
updateRoutingInfo_replicasOnly(g, info) ==
  LET state == loadRoutingState(g.name, NoVersion).state
  IN IF state.replicas = info.replicas THEN routingState
     ELSE [routingState EXCEPT
             ![routingKey(g.name)] = VersionedUpdate(@, info)]

\* updateRoutingInfo(g, info): the routing records after the call.
updateRoutingInfo(g, info) ==
  LET state == loadRoutingState(g.name, NoVersion).state
  IN IF state = info THEN routingState
     ELSE [routingState EXCEPT
             ![routingKey(g.name)] = VersionedUpdate(@, info)]

\* Variant: the replicas are left in the order of their registration.
mayGenerateNewRoutingInfo_noSort(g, order) ==
  LET g1 == [g EXCEPT
               !.assignments =
                  [c \in DOMAIN g.assignments |->
                     routingAlgo(g.assignments[c], g.replicas)]]
      routingInfo ==
        [replicas |-> g1.replicas,
         assignments |-> [i \in DOMAIN order |-> g1.assignments[order[i]]]]
  IN [g |-> g1, routing |-> updateRoutingInfo(g1, routingInfo)]

\* mayGenerateNewRoutingInfo(g), the map g.Assignments being iterated in
\* the given order at line 578: [g, routing], the group and the routing
\* records after the call.
mayGenerateNewRoutingInfo(g, order) ==
  LET g1 == [g EXCEPT
               !.assignments =
                  [c \in DOMAIN g.assignments |->
                     routingAlgo(g.assignments[c], g.replicas)],
               !.replicas = SortStrings(g.replicas)]
      routingInfo ==
        [replicas |-> g1.replicas,
         assignments |-> [i \in DOMAIN order |-> g1.assignments[order[i]]]]
  IN [g |-> g1, routing |-> updateRoutingInfo(g1, routingInfo)]

\* Variant: the started set is not consulted.
startColocationGroup_noCheck(group, okCount) ==
  [started |-> IF okCount = Len(locations)
                 THEN started \cup {group} ELSE started,
   launched |-> [launched EXCEPT
                   ![group] = [i \in DOMAIN locations |->
                                 IF i <= okCount THEN @[i] + 1 ELSE @[i]]],
   err |-> okCount < Len(locations)]

\* Variant: the group is recorded as started after the loop, whatever the
\* calls of startBabysitter returned.
startColocationGroup_markAlways(group, okCount) ==
  IF group \in started
    THEN [started |-> started, launched |-> launched, err |-> FALSE]
  ELSE [started |-> started \cup {group},
        launched |-> [launched EXCEPT
                        ![group] = [i \in DOMAIN locations |->
                                      IF i <= okCount THEN @[i] + 1 ELSE @[i]]],
        err |-> okCount < Len(locations)]

\* startColocationGroup(group) when the first okCount calls of
\* startBabysitter succeed: [started, launched, err].
startColocationGroup(group, okCount) ==
  IF group \in started
    THEN [started |-> started, launched |-> launched, err |-> FALSE]
  ELSE [started |-> IF okCount = Len(locations)
                      THEN started \cup {group} ELSE started,
        launched |-> [launched EXCEPT
                        ![group] = [i \in DOMAIN locations |->
                                      IF i <= okCount THEN @[i] + 1 ELSE @[i]]],
        err |-> okCount < Len(locations)]

\* Variant: the replica is appended without looking for it.
addReplica_noDedup(g, address, pid) ==
  [g EXCEPT !.replicas = Append(@, address),
            !.replicaPids = Append(@, pid)]

\* The group after registerReplica has appended the replica, if it was not
\* already appended.
addReplica(g, address, pid) ==
  LET found == \E i \in DOMAIN g.replicas : g.replicas[i] = address
  IN IF found THEN g
     ELSE [g EXCEPT !.replicas = Append(@, address),
                    !.replicaPids = Append(@, pid)]

registerReplica(group, address, pid) ==
  /\ ~ctxDone
  /\ appState.ver < MaxVersion
  /\ LET state == loadAppState(NoVersion).state
         g == findOrAddGroup(state, group)
         g1 == addReplica(g, address, pid)
     IN \E order \in Orders(DOMAIN g1.assignments) :
          LET r == mayGenerateNewRoutingInfo(g1, order)
          IN /\ routingState' = r.routing
             /\ appState' = VersionedUpdate(appState,
                   [state EXCEPT !.groups = MapPut(@, group, r.g)])
  /\ UNCHANGED <<started, launched, rd, ctxDone, reqCtxDone, startErr,
                 algoVars, proxyVars>>

\* Variant: a routed component is given an initial assignment on every
\* call.
addComponent_reset(g, component, isRouted) ==
  [g EXCEPT
     !.components = MapPut(@, component, isRouted),
     !.assignments =
        IF isRouted
          THEN MapPut(@, component,
                 [component |-> component, version |-> 0, slices |-> <<>>])
        ELSE @]

\* The group after startComponent has recorded the component and, for a
\* routed component without an assignment, its initial assignment.
addComponent(g, component, isRouted) ==
  [g EXCEPT
     !.components = MapPut(@, component, isRouted),
     !.assignments =
        IF isRouted /\ component \notin DOMAIN @
          THEN MapPut(@, component,
                 [component |-> component, version |-> 0, slices |-> <<>>])
        ELSE @]

startComponent(group, component, isRouted, okCount) ==
  /\ ~ctxDone
  /\ appState.ver < MaxVersion
  /\ LET state == loadAppState(NoVersion).state
         g == findOrAddGroup(state, group)
         g1 == addComponent(g, component, isRouted)
         s == startColocationGroup(group, okCount)
     IN \E order \in Orders(DOMAIN g1.assignments) :
          LET r == mayGenerateNewRoutingInfo(g1, order)
          IN /\ routingState' = r.routing
             /\ appState' = VersionedUpdate(appState,
                   [state EXCEPT !.groups = MapPut(@, group, r.g)])
             /\ started' = s.started
             /\ launched' = s.launched
             /\ startErr' = s.err
  /\ UNCHANGED <<rd, ctxDone, reqCtxDone, algoVars, proxyVars>>

\* ------------------------------------------------- long-poll callers
NoReply == [version |-> NoVersion, replicas |-> <<>>, assignments |-> <<>>,
            components |-> {}]
\* A caller is [st, op, group, version, waited, reply]: its position, the
\* request it made, whether the read had to wait, and the reply it got.
IdleCaller == [st |-> "idle", op |-> "none", group |-> "main",
               version |-> NoVersion, waited |-> FALSE, reply |-> NoReply]

\* The reply getRoutingInfo builds once loadRoutingState has returned.
getRoutingInfoReply(group, version) ==
  LET l == loadRoutingState(group, version)
  IN [version |-> l.newVersion, replicas |-> l.state.replicas,
      assignments |-> l.state.assignments, components |-> {}]

\* Variant: the reply carries the version the caller gave.
getComponentsToStartReply_givenVersion(group, version) ==
  LET l == loadAppState(version)
      g == findOrAddGroup(l.state, group)
  IN [version |-> version, replicas |-> <<>>, assignments |-> <<>>,
      components |-> DOMAIN g.components]

\* The reply getComponentsToStart builds once loadAppState has returned.
getComponentsToStartReply(group, version) ==
  LET l == loadAppState(version)
      g == findOrAddGroup(l.state, group)
  IN [version |-> l.newVersion, replicas |-> <<>>, assignments |-> <<>>,
      components |-> DOMAIN g.components]

\* getRoutingInfo is called: it returns at once or waits in Map.Read.
getRoutingInfo(r, group, version) ==
  /\ ~ctxDone
  /\ rd[r].st = "idle"
  /\ rd' = [rd EXCEPT ![r] =
       IF loadRoutingState(group, version).ready
         THEN [st |-> "returned", op |-> "getRoutingInfo", group |-> group,
               version |-> version, waited |-> FALSE,
               reply |-> getRoutingInfoReply(group, version)]
       ELSE [st |-> "blocked", op |-> "getRoutingInfo", group |-> group,
             version |-> version, waited |-> TRUE, reply |-> NoReply]]
  /\ UNCHANGED <<appState, routingState, started, launched, ctxDone,
                 reqCtxDone, startErr, algoVars, proxyVars>>

\* A waiting getRoutingInfo is woken by a write of its key and returns.
getRoutingInfoWake(r) ==
  /\ rd[r].st = "blocked"
  /\ rd[r].op = "getRoutingInfo"
  /\ loadRoutingState(rd[r].group, rd[r].version).ready
  /\ rd' = [rd EXCEPT ![r].st = "returned",
                      ![r].reply = getRoutingInfoReply(rd[r].group, rd[r].version)]
  /\ UNCHANGED <<appState, routingState, started, launched, ctxDone,
                 reqCtxDone, startErr, algoVars, proxyVars>>

getComponentsToStart(r, group, version) ==
  /\ ~ctxDone
  /\ rd[r].st = "idle"
  /\ rd' = [rd EXCEPT ![r] =
       IF loadAppState(version).ready
         THEN [st |-> "returned", op |-> "getComponentsToStart",
               group |-> group, version |-> version, waited |-> FALSE,
               reply |-> getComponentsToStartReply(group, version)]
       ELSE [st |-> "blocked", op |-> "getComponentsToStart",
             group |-> group, version |-> version, waited |-> TRUE,
             reply |-> NoReply]]
  /\ UNCHANGED <<appState, routingState, started, launched, ctxDone,
                 reqCtxDone, startErr, algoVars, proxyVars>>

getComponentsToStartWake(r) ==
  /\ rd[r].st = "blocked"
  /\ rd[r].op = "getComponentsToStart"
  /\ loadAppState(rd[r].version).ready
  /\ rd' = [rd EXCEPT ![r].st = "returned",
                      ![r].reply = getComponentsToStartReply(rd[r].group, rd[r].version)]
  /\ UNCHANGED <<appState, routingState, started, launched, ctxDone,
                 reqCtxDone, startErr, algoVars, proxyVars>>

\* The manager's context m.ctx, which every Map.Read is given, is cancelled.
cancelCtx ==
  /\ ~ctxDone
  /\ ctxDone' = TRUE
  /\ UNCHANGED <<appState, routingState, started, launched, rd,
                 reqCtxDone, startErr, algoVars, proxyVars>>

\* The context of the request of a waiting caller is cancelled. The
\* handlers drop their context argument, so nothing in the manager sees it.
cancelRequestCtx(r) ==
  /\ rd[r].st = "blocked"
  /\ r \notin reqCtxDone
  /\ reqCtxDone' = reqCtxDone \cup {r}
  /\ UNCHANGED <<appState, routingState, started, launched, rd, ctxDone,
                 startErr, algoVars, proxyVars>>

\* A waiting read returns the context's error.
readCancelled(r) ==
  /\ ctxDone
  /\ rd[r].st = "blocked"
  /\ rd' = [rd EXCEPT ![r].st = "cancelled"]
  /\ UNCHANGED <<appState, routingState, started, launched, ctxDone,
                 reqCtxDone, startErr, algoVars, proxyVars>>

\* ------------------------------------------------------------- proxy
\* A proxy is [backends]: the backend addresses in the order they were added.
NewProxy == [backends |-> <<>>]

\* Variant: the backend is put in front of the list.
AddBackend_prepend(p, backend) == [p EXCEPT !.backends = <<backend>> \o @]

\* Proxy.AddBackend
AddBackend(p, backend) == [p EXCEPT !.backends = Append(@, backend)]

\* The URL of a request as the proxy's server receives it.
IncomingURL == [scheme |-> "", host |-> ""]

\* Variant: the director goes on after it has logged that there is no
\* backend.
director_noReturn(p, url, pick) ==
  IF Len(p.backends) = 0
    THEN [url |-> [scheme |-> "http", host |-> url.host],
          logged |-> "no backends"]
  ELSE [url |-> [scheme |-> "http", host |-> p.backends[pick]],
        logged |-> ""]

\* Proxy.director on a request with the given URL, when rand.Intn returns
\* pick - 1: the URL of the request afterwards and the error it logged.
director(p, url, pick) ==
  IF Len(p.backends) = 0
    THEN [url |-> url, logged |-> "no backends"]
  ELSE [url |-> [scheme |-> "http", host |-> p.backends[pick]],
        logged |-> ""]

\* ----------------------------------------------------- exportListener
ListenerNames == {"L", "M"}
WorkerAddrs == {"worker1", "worker2"}
LocalAddrs == {"addrX", "addrY"}
\* What net.Listen returns: a listener, EADDRINUSE or another error.
ListenOutcomes == {"ok", "EADDRINUSE", "other"}

NoExportReply == [proxyAddress |-> "", error |-> ""]
NoExport == [name |-> "", addr |-> "", localAddress |-> "", listen |-> "",
             reply |-> NoExportReply, err |-> FALSE]

\* The addresses the manager's proxies listen on.
BoundAddrs == {proxies[n].addr : n \in DOMAIN proxies}

\* Variant: a new proxy is made for every export, replacing the one the
\* listener name had.
exportProxy_alwaysNew(name, addr, localAddress, listen) ==
  IF listen = "ok"
    THEN [proxies |-> MapPut(proxies, name,
                        [addr |-> localAddress,
                         backends |-> AddBackend(NewProxy, addr).backends]),
          reply |-> [proxyAddress |-> localAddress, error |-> ""],
          err |-> FALSE]
  ELSE IF listen = "EADDRINUSE"
    THEN [proxies |-> proxies,
          reply |-> [proxyAddress |-> "", error |-> "EADDRINUSE"],
          err |-> FALSE]
  ELSE [proxies |-> proxies, reply |-> NoExportReply, err |-> TRUE]

\* Variant: the proxy is registered before net.Listen is called.
exportProxy_registerFirst(name, addr, localAddress, listen) ==
  IF name \in DOMAIN proxies
    THEN [proxies |-> [proxies EXCEPT ![name] = AddBackend(@, addr)],
          reply |-> [proxyAddress |-> proxies[name].addr, error |-> ""],
          err |-> FALSE]
  ELSE LET added == MapPut(proxies, name,
                      [addr |-> localAddress,
                       backends |-> AddBackend(NewProxy, addr).backends])
       IN IF listen = "EADDRINUSE"
            THEN [proxies |-> added,
                  reply |-> [proxyAddress |-> "", error |-> "EADDRINUSE"],
                  err |-> FALSE]
          ELSE IF listen = "other"
            THEN [proxies |-> added, reply |-> NoExportReply, err |-> TRUE]
          ELSE [proxies |-> added,
                reply |-> [proxyAddress |-> localAddress, error |-> ""],
                err |-> FALSE]

\* The "update the proxy" part of exportListener: [proxies, reply, err].
exportProxy(name, addr, localAddress, listen) ==
  IF name \in DOMAIN proxies
    THEN [proxies |-> [proxies EXCEPT ![name] = AddBackend(@, addr)],
          reply |-> [proxyAddress |-> proxies[name].addr, error |-> ""],
          err |-> FALSE]
  ELSE IF listen = "EADDRINUSE"
    THEN [proxies |-> proxies,
          reply |-> [proxyAddress |-> "", error |-> "EADDRINUSE"],
          err |-> FALSE]
  ELSE IF listen = "other"
    THEN [proxies |-> proxies, reply |-> NoExportReply, err |-> TRUE]
  ELSE [proxies |-> MapPut(proxies, name,
                      [addr |-> localAddress,
                       backends |-> AddBackend(NewProxy, addr).backends]),
        reply |-> [proxyAddress |-> localAddress, error |-> ""],
        err |-> FALSE]

\* exportListener of listener [name, addr] with the proxy to listen on
\* localAddress, when net.Listen has the outcome listen. An address one of
\* the manager's proxies listens on cannot be bound again.
MaxExports == 2
exportListener(name, addr, localAddress, listen) ==
  /\ ~ctxDone
  /\ Len(appState.val.listeners) < MaxExports
  /\ listen = "ok" => localAddress \notin BoundAddrs
  /\ LET state == loadAppState(NoVersion).state
         e == exportProxy(name, addr, localAddress, listen)
     IN /\ appState' = VersionedUpdate(appState,
              [state EXCEPT !.listeners =
                              Append(@, [name |-> name, addr |-> addr])])
        /\ proxies' = e.proxies
        /\ lastExport' = [name |-> name, addr |-> addr,
                          localAddress |-> localAddress, listen |-> listen,
                          reply |-> e.reply, err |-> e.err]
  /\ UNCHANGED <<routingState, started, launched, rd, ctxDone, reqCtxDone,
                 startErr, proxy, request, algoVars>>

\* ----------------------------------------- a proxy outside the manager
MaxBackends == 2
NoRequest == [in |-> IncomingURL, out |-> IncomingURL, logged |-> "",
              served |-> FALSE]

proxyAddBackend(backend) ==
  /\ Len(proxy.backends) < MaxBackends
  /\ proxy' = AddBackend(proxy, backend)
  /\ UNCHANGED <<mgrVarsButProxy, proxies, lastExport, request, algoVars>>

\* Proxy.ServeHTTP: the reverse proxy runs the director on the request.
proxyServeHTTP(pick) ==
  /\ LET d == director(proxy, IncomingURL, pick)
     IN request' = [in |-> IncomingURL, out |-> d.url, logged |-> d.logged,
                    served |-> TRUE]
  /\ UNCHANGED <<mgrVarsButProxy, proxies, lastExport, proxy, algoVars>>

\* ------------------------------------------------- the manager's metrics
\* A report is the list of metric snapshots a babysitter sends; the key of
\* m.metrics is groupReplicaInfo{name, id}.
MetricsKeys == {<<g, id>> : g \in Groups, id \in 0..(Len(locations) - 1)}
Snapshot(name, value) == [name |-> name, value |-> value]
Reports ==
  {<<>>, <<Snapshot("m1", 1)>>, <<Snapshot("m1", 2), Snapshot("m2", 1)>>}
NoMetricsReply == [replied |-> FALSE, metrics |-> <<>>]

\* Variant: the report is appended to the one the manager has.
handleRecvMetrics_merge(group, id, report) ==
  /\ metrics' = MapPut(metrics, <<group, id>>,
                  IF <<group, id>> \in DOMAIN metrics
                    THEN metrics[<<group, id>>] \o report ELSE report)
  /\ UNCHANGED ms

handleRecvMetrics(group, id, report) ==
  /\ metrics' = MapPut(metrics, <<group, id>>, report)
  /\ UNCHANGED ms

RECURSIVE Concat(_, _)
\* The reports of the map f appended in the order of the keys of order.
Concat(f, order) ==
  IF order = <<>> THEN <<>>
  ELSE f[Head(order)] \o Concat(f, Tail(order))

\* manager.Metrics, the map m.metrics being iterated in the given order.
Metrics(order) ==
  /\ ms' = [replied |-> TRUE, metrics |-> Concat(metrics, order)]
  /\ UNCHANGED metrics

\* ------------------------------------------------- the manager's lock
\* The goroutine of manager.run, a goroutine of the HTTP server that handles
\* a request that writes, and the one that handles the request of the
\* long-poll caller r1.
Goroutines == {"run", "h1", "r1"}
NoHolder == "none"
NoWrite == [by |-> "none", target |-> "none", held |-> TRUE]
LockedHandlers ==
  {"registerReplica", "startComponent", "exportListener", "handleRecvMetrics"}

\* The position of a goroutine that was given a request for the handler
\* and has not taken the lock yet.
Waiting(handler) ==
  CASE handler = "registerReplica" -> "call registerReplica"
    [] handler = "startComponent" -> "call startComponent"
    [] handler = "exportListener" -> "call exportListener"
    [] OTHER -> "call handleRecvMetrics"

\* The HTTP server hands a request for the handler to goroutine t.
handlerCall(t, handler) ==
  /\ pc[t] = "idle"
  /\ pc' = [pc EXCEPT ![t] = Waiting(handler)]
  /\ UNCHANGED <<mu, lastWrite, mgrVars, mgrMetricsVars, algoVars,
                 pkgVars>>

\* Variant: the reads made under the lock are given the current version
\* of the app state.
lockVersion_current == appState.ver

\* The version the handlers give to the reads they make under the lock.
lockVersion == NoVersion

\* The reads a handler makes of the app state and of the routing record of
\* the group return without waiting.
lockedReadsReturn(group) ==
  /\ loadAppState(lockVersion).ready
  /\ loadRoutingState(group, lockVersion).ready

\* m.mu.Lock() at the head of a handler.
lockMu(t, handler) ==
  /\ pc[t] \in {"idle", Waiting(handler)}
  /\ mu = NoHolder
  /\ mu' = t
  /\ pc' = [pc EXCEPT ![t] = handler]
  /\ UNCHANGED <<lastWrite, mgrVars, mgrMetricsVars, algoVars,
                 pkgVars>>

\* Goroutine t writes the target and then runs its deferred m.mu.Unlock(),
\* if it holds the lock, and goes to the position next.
writeAndUnlock(t, target, next) ==
  /\ lastWrite' = [by |-> t, target |-> target, held |-> mu = t]
  /\ mu' = IF mu = t THEN NoHolder ELSE mu
  /\ pc' = [pc EXCEPT ![t] = next]

lockedRegisterReplica(t, group, address, pid) ==
  /\ pc[t] = "registerReplica"
  /\ lockedReadsReturn(group)
  /\ registerReplica(group, address, pid)
  /\ writeAndUnlock(t, "appState", "idle")
  /\ UNCHANGED <<mgrMetricsVars, pkgVars>>

lockedStartComponent(t, group, component, isRouted, okCount) ==
  /\ pc[t] = "startComponent"
  /\ lockedReadsReturn(group)
  /\ startComponent(group, component, isRouted, okCount)
  /\ writeAndUnlock(t, "appState", "idle")
  /\ UNCHANGED <<mgrMetricsVars, pkgVars>>

lockedExportListener(t, name, addr, localAddress, listen) ==
  /\ pc[t] = "exportListener"
  /\ loadAppState(lockVersion).ready
  /\ exportListener(name, addr, localAddress, listen)
  /\ writeAndUnlock(t, "proxies", "idle")
  /\ UNCHANGED <<mgrMetricsVars, pkgVars>>

lockedHandleRecvMetrics(t, group, id, report) ==
  /\ pc[t] = "handleRecvMetrics"
  /\ handleRecvMetrics(group, id, report)
  /\ writeAndUnlock(t, "metrics", "idle")
  /\ UNCHANGED <<mgrVars, algoVars, pkgVars>>

\* manager.run takes the lock in startComponent for the main component.
runLock ==
  /\ pc["run"] = "start"
  /\ mu = NoHolder
  /\ mu' = "run"
  /\ pc' = [pc EXCEPT !["run"] = "startComponent"]
  /\ UNCHANGED <<lastWrite, mgrVars, mgrMetricsVars, algoVars,
                 pkgVars>>

\* manager.run: startComponent returns; run returns its error, if any.
runStartComponent(okCount) ==
  /\ pc["run"] = "startComponent"
  /\ mu = "run"
  /\ lockedReadsReturn("main")
  /\ startComponent("main", "main", FALSE, okCount)
  /\ writeAndUnlock("run", "appState",
       IF okCount < Len(locations) THEN "failed" ELSE "startColocationGroup")
  /\ UNCHANGED <<mgrMetricsVars, pkgVars>>

\* manager.run then calls startColocationGroup itself, outside the lock.
runStartColocationGroup(okCount) ==
  /\ pc["run"] = "startColocationGroup"
  /\ LET s == startColocationGroup("main", okCount)
     IN /\ started' = s.started
        /\ launched' = s.launched
        /\ lastWrite' = IF s.started # started \/ s.launched # launched
                          THEN [by |-> "run", target |-> "started",
                                held |-> mu = "run"]
                        ELSE lastWrite
        /\ pc' = [pc EXCEPT !["run"] = IF s.err THEN "failed" ELSE "done"]
  /\ UNCHANGED <<mu, appState, routingState, rd, ctxDone, reqCtxDone,
                 startErr, proxyVars, mgrMetricsVars, algoVars,
                 pkgVars>>

\* findOrAddGroup writes state.Groups[group] when the state has no such
\* group.
findOrAddGroupWrites(state, group) == group \notin DOMAIN state.groups

\* getComponentsToStart takes no lock: the write of findOrAddGroup into the
\* state it loaded is made by the goroutine of the caller, whoever holds
\* the lock.
unlockedGetComponentsToStart(r, group, version) ==
  /\ getComponentsToStart(r, group, version)
  /\ LET l == loadAppState(version)
     IN lastWrite' = IF l.ready /\ findOrAddGroupWrites(l.state, group)
                       THEN [by |-> r, target |-> "appState",
                             held |-> mu = r]
                     ELSE lastWrite
  /\ UNCHANGED <<mu, pc, mgrMetricsVars, pkgVars>>

unlockedGetComponentsToStartWake(r) ==
  /\ getComponentsToStartWake(r)
  /\ LET l == loadAppState(rd[r].version)
     IN lastWrite' = IF findOrAddGroupWrites(l.state, rd[r].group)
                       THEN [by |-> r, target |-> "appState",
                             held |-> mu = r]
                     ELSE lastWrite
  /\ UNCHANGED <<mu, pc, mgrMetricsVars, pkgVars>>

\* ------------------------------------------------- the proxy's lock
\* Two goroutines call AddBackend on one proxy, each with its own backend,
\* while a third one runs the director on requests. A goroutine is
\* [pc, calls, old, n, host]: its position, the calls it has started, the
\* list AddBackend read, the length and the host the director read.
Adders == {"a1", "a2"}
ProxyGoroutines == Adders \cup {"d"}
BackendOf(t) == IF t = "a1" THEN "worker1" ELSE "worker2"
IdleGoroutine == [pc |-> "idle", calls |-> 0, old |-> <<>>, n |-> 0,
                  host |-> ""]
MaxCalls == 2

\* The goroutine calls AddBackend or, for the director's, gets a request.
proxyCall(t) ==
  /\ pg[t].pc = "idle"
  /\ pg[t].calls < MaxCalls
  /\ pg' = [pg EXCEPT ![t].pc = "call", ![t].calls = @ + 1]
  /\ UNCHANGED <<pmu, proxy>>

\* Variant: the proxy's lock is taken only when the manager's lock is free.
pmuLock_afterMu(t) ==
  /\ pg[t].pc = "call"
  /\ pmu = NoHolder
  /\ mu = NoHolder
  /\ pmu' = t
  /\ pg' = [pg EXCEPT ![t].pc = "locked"]
  /\ UNCHANGED proxy

\* Variant: the lock is taken whoever holds it.
pmuLock_noWait(t) ==
  /\ pg[t].pc = "call"
  /\ pmu' = t
  /\ pg' = [pg EXCEPT ![t].pc = "locked"]
  /\ UNCHANGED proxy

\* p.mu.Lock()
pmuLock(t) ==
  /\ pg[t].pc = "call"
  /\ pmu = NoHolder
  /\ pmu' = t
  /\ pg' = [pg EXCEPT ![t].pc = "locked"]
  /\ UNCHANGED proxy

\* AddBackend: append reads p.backends ...
AddBackendRead(t) ==
  /\ pg[t].pc = "locked"
  /\ pg' = [pg EXCEPT ![t].pc = "read", ![t].old = proxy.backends]
  /\ UNCHANGED <<pmu, proxy>>

\* ... and the list it made of it is assigned to p.backends.
AddBackendWrite(t) ==
  /\ pg[t].pc = "read"
  /\ proxy' = AddBackend([proxy EXCEPT !.backends = pg[t].old], BackendOf(t))
  /\ pg' = [pg EXCEPT ![t].pc = "unlock"]
  /\ UNCHANGED pmu

\* director: len(p.backends) is read; with no backend the director returns.
directorLen(t) ==
  /\ pg[t].pc = "locked"
  /\ pg' = [pg EXCEPT ![t].n = Len(proxy.backends),
                      ![t].pc = IF Len(proxy.backends) = 0 THEN "unlock"
                                ELSE "pick",
                      ![t].host = ""]
  /\ UNCHANGED <<pmu, proxy>>

\* director: p.backends[rand.Intn(n)] is read, rand.Intn returning pick - 1.
directorPick(t, pick) ==
  /\ pg[t].pc = "pick"
  /\ pick \in 1..pg[t].n
  /\ pg' = [pg EXCEPT ![t].host = director(proxy, IncomingURL, pick).url.host,
                      ![t].pc = "unlock"]
  /\ UNCHANGED <<pmu, proxy>>

\* The deferred p.mu.Unlock()
pmuUnlock(t) ==
  /\ pg[t].pc = "unlock"
  /\ pmu' = IF pmu = t THEN NoHolder ELSE pmu
  /\ pg' = [pg EXCEPT ![t].pc = "idle"]
  /\ UNCHANGED proxy

\* exportListener of a listener that has a proxy: the goroutine of the
\* handler takes m.mu and, the app state stored, calls AddBackend on the
\* proxy.
exportAddBackendLock(t) ==
  /\ pg[t].pc = "idle"
  /\ pg[t].calls < MaxCalls
  /\ mu = NoHolder
  /\ mu' = t
  /\ pg' = [pg EXCEPT ![t].pc = "call", ![t].calls = @ + 1]
  /\ UNCHANGED <<pmu, proxy, pc, lastWrite>>

\* AddBackend has returned: exportListener returns and its deferred
\* m.mu.Unlock() runs.
exportAddBackendUnlock(t) ==
  /\ pg[t].pc = "idle"
  /\ mu = t
  /\ mu' = NoHolder
  /\ UNCHANGED <<pmu, pg, proxy, pc, lastWrite>>

\* ------------------------------------------------ the metrics package
\* A float64 is modelled by an integer or NaN; every comparison with NaN
\* is false and every sum with NaN is NaN.
NaN == 1000
FloatGeq(a, b) == a # NaN /\ b # NaN /\ a >= b
FloatLess(a, b) == a # NaN /\ b # NaN /\ a < b
FloatEq(a, b) == a # NaN /\ b # NaN /\ a = b
FloatAdd(a, b) == IF a = NaN \/ b = NaN THEN NaN ELSE a + b

\* newMetric: a metric is [bounds, counts, value, version], counts having
\* one element more than bounds (for a counter, which has no bounds, the
\* counts are not used).
NewMetric(bounds) ==
  [bounds |-> bounds, counts |-> [i \in 1..(Len(bounds) + 1) |-> 0],
   value |-> 0, version |-> 0]

\* Metric.Add
MetricAdd(m, delta) ==
  [m EXCEPT !.value = FloatAdd(@, delta), !.version = @ + 1]

MaxUpdates == 3
Deltas == -1..2

\* Counter.Add
CounterAdd(delta) ==
  /\ counter.version < MaxUpdates
  /\ counter' = MetricAdd(counter, delta)
  /\ UNCHANGED hist

RECURSIVE Search(_, _, _, _)
\* sort.Search on the indices i..j-1 of the list a (counted from 0) with
\* the predicate a[h] >= x.
Search(a, x, i, j) ==
  IF i < j
    THEN LET h == (i + j) \div 2
         IN IF ~FloatGeq(a[h + 1], x) THEN Search(a, x, h + 1, j)
            ELSE Search(a, x, i, h)
  ELSE i

\* sort.SearchFloat64s: the least index (from 0) of an element >= x, or the
\* length of the list.
SearchFloat64s(a, x) == Search(a, x, 0, Len(a))

\* Variant: a value equal to a bound stays in the bucket below the bound.
MetricPut_noSkip(m, val) ==
  LET idx == SearchFloat64s(m.bounds, val)
  IN [m EXCEPT !.counts[idx + 1] = @ + 1,
               !.value = FloatAdd(@, val),
               !.version = @ + 1]

\* Metric.Put
MetricPut(m, val) ==
  LET idx0 == SearchFloat64s(m.bounds, val)
      idx == IF idx0 < Len(m.bounds) /\ FloatEq(val, m.bounds[idx0 + 1])
               THEN idx0 + 1 ELSE idx0
  IN [m EXCEPT !.counts[idx + 1] = @ + 1,
               !.value = FloatAdd(@, val),
               !.version = @ + 1]

\* The bounds RegisterMap accepts: no NaN, strictly ascending.
MaxBound == 3
BoundLists ==
  UNION {{b \in [1..n -> 1..MaxBound] : \A i \in 1..(n - 1) : b[i] < b[i+1]} :
           n \in 0..MaxBound}
PutValues == (0..(MaxBound + 1)) \cup {NaN}

\* Histogram.Put
HistogramPut(val) ==
  /\ hist.version < MaxUpdates
  /\ hist' = MetricPut(hist, val)
  /\ UNCHANGED counter

\* ---------------------------------------------------------- MetricMap
\* Two goroutines call Get on one MetricMap. A goroutine is
\* [pc, calls, labels, metric, ret]: its position, the calls it has
\* started, the labels of its call, the metric newMetric made for it and
\* what its last call returned, as [labels, metric]. A metric is known by
\* its place in the package's list of all metrics.
GetGoroutines == {"g1", "g2"}
Labels == {"x", "y"}
NoMetric == 0
NoReturn == [labels |-> "", metric |-> NoMetric]
IdleGet == [pc |-> "idle", calls |-> 0, labels |-> "", metric |-> NoMetric,
            ret |-> NoReturn]
MaxGets == 2

\* The goroutine calls mm.Get(labels).
getCall(t, labels) ==
  /\ gt[t].pc = "idle"
  /\ gt[t].calls < MaxGets
  /\ gt' = [gt EXCEPT ![t].pc = "call", ![t].calls = @ + 1,
                      ![t].labels = labels, ![t].metric = NoMetric]
  /\ UNCHANGED <<mmMu, metricsMu, mmMetrics, allMetrics>>

\* Variant: the lock of the map is taken whoever holds it.
mmLock_noWait(t) ==
  /\ gt[t].pc = "call"
  /\ mmMu' = t
  /\ gt' = [gt EXCEPT ![t].pc = "lookup"]
  /\ UNCHANGED <<metricsMu, mmMetrics, allMetrics>>

\* mm.mu.Lock()
mmLock(t) ==
  /\ gt[t].pc = "call"
  /\ mmMu = NoHolder
  /\ mmMu' = t
  /\ gt' = [gt EXCEPT ![t].pc = "lookup"]
  /\ UNCHANGED <<metricsMu, mmMetrics, allMetrics>>

\* The metric of the labels is looked up and, when there is one, returned.
getLookup(t) ==
  /\ gt[t].pc = "lookup"
  /\ gt' = [gt EXCEPT
       ![t] = IF gt[t].labels \in DOMAIN mmMetrics
                THEN [@ EXCEPT !.pc = "unlock",
                               !.ret = [labels |-> gt[t].labels,
                                        metric |-> mmMetrics[gt[t].labels]]]
              ELSE [@ EXCEPT !.pc = "newMetric"]]
  /\ UNCHANGED <<mmMu, metricsMu, mmMetrics, allMetrics>>

\* newMetric: metricsMu.Lock()
metricsLock(t) ==
  /\ gt[t].pc = "newMetric"
  /\ metricsMu = NoHolder
  /\ metricsMu' = t
  /\ gt' = [gt EXCEPT ![t].pc = "append"]
  /\ UNCHANGED <<mmMu, mmMetrics, allMetrics>>

\* newMetric makes the metric, appends it to the list of all metrics and
\* returns, which releases metricsMu.
newMetric(t) ==
  /\ gt[t].pc = "append"
  /\ allMetrics' = Append(allMetrics, gt[t].labels)
  /\ gt' = [gt EXCEPT ![t].pc = "store", ![t].metric = Len(allMetrics) + 1]
  /\ metricsMu' = IF metricsMu = t THEN NoHolder ELSE metricsMu
  /\ UNCHANGED <<mmMu, mmMetrics>>

\* mm.metrics[labels] = metric, and the metric is returned.
getStore(t) ==
  /\ gt[t].pc = "store"
  /\ mmMetrics' = MapPut(mmMetrics, gt[t].labels, gt[t].metric)
  /\ gt' = [gt EXCEPT ![t].pc = "unlock",
                      ![t].ret = [labels |-> gt[t].labels,
                                  metric |-> gt[t].metric]]
  /\ UNCHANGED <<mmMu, metricsMu, allMetrics>>

\* The deferred mm.mu.Unlock()
mmUnlock(t) ==
  /\ gt[t].pc = "unlock"
  /\ mmMu' = IF mmMu = t THEN NoHolder ELSE mmMu
  /\ gt' = [gt EXCEPT ![t].pc = "idle"]
  /\ UNCHANGED <<metricsMu, mmMetrics, allMetrics>>

\* ------------------------------------------------------ specification
MgrInit ==
  /\ appState = [ver |-> NoVersion, val |-> NewAppVersionState]
  /\ routingState = [k \in {routingKey(g) : g \in Groups} |->
                       [ver |-> NoVersion, val |-> EmptyRoutingInfo]]
  /\ started = {}
  /\ launched = [g \in Groups |-> [i \in DOMAIN locations |-> 0]]
  /\ rd = [r \in Readers |-> IdleCaller]
  /\ ctxDone = FALSE
  /\ reqCtxDone = {}
  /\ startErr = FALSE
  /\ proxies = EmptyMap
  /\ lastExport = NoExport
  /\ proxy = NewProxy
  /\ request = NoRequest
  /\ metrics = EmptyMap
  /\ ms = NoMetricsReply
  /\ mu = NoHolder
  /\ pc = [t \in Goroutines |-> IF t = "run" THEN "start" ELSE "idle"]
  /\ lastWrite = NoWrite
  /\ pmu = NoHolder
  /\ pg = [t \in ProxyGoroutines |-> IdleGoroutine]
  /\ counter = NewMetric(<<>>)
  /\ mmMu = NoHolder
  /\ metricsMu = NoHolder
  /\ mmMetrics = EmptyMap
  /\ allMetrics = <<>>
  /\ gt = [t \in GetGoroutines |-> IdleGet]

AlgoOff ==
  /\ algoIn = [curr |-> [component |-> "c1", version |-> 0, slices |-> <<>>],
               candidates |-> <<>>]
  /\ algoOut1 = [component |-> "c1", version |-> 0, slices |-> <<>>]
  /\ algoOut2 = [component |-> "c1", version |-> 0, slices |-> <<>>]
  /\ algoPc = "off"

\* No histogram is in use: the one there is has no bounds.
HistogramOff == hist = NewMetric(<<>>)

Init == MgrInit /\ AlgoOff /\ HistogramOff

\* The versions a caller passes: the empty version, the current version of
\* the record, or the version before it (a stale one).
CallerVersions(ver) == {v \in {NoVersion, ver - 1, ver} : v >= 0}

\* One step of the manager with the components of Comps, the replica
\* addresses of As and the long-poll callers of Rs.
MgrNext(Comps, As, Rs) ==
  \/ /\ \E c \in Comps, a \in As : registerReplica(GroupOf(c), a, PidOf(a))
     /\ UNCHANGED extVars
  \/ /\ \E c \in Comps, k \in 0..Len(locations) :
           startComponent(GroupOf(c), c, IsRouted(c), k)
     /\ UNCHANGED extVars
  \/ /\ \E r \in Rs, c \in Comps :
           \E v \in CallerVersions(routingState[routingKey(GroupOf(c))].ver) :
              getRoutingInfo(r, GroupOf(c), v)
     /\ UNCHANGED extVars
  \/ /\ \E r \in Rs : getRoutingInfoWake(r)
     /\ UNCHANGED extVars
  \/ /\ \E r \in Rs, c \in Comps, v \in CallerVersions(appState.ver) :
           getComponentsToStart(r, GroupOf(c), v)
     /\ UNCHANGED extVars
  \/ /\ \E r \in Rs : getComponentsToStartWake(r)
     /\ UNCHANGED extVars
  \/ cancelCtx /\ UNCHANGED extVars
  \/ /\ \E r \in Rs : cancelRequestCtx(r)
     /\ UNCHANGED extVars
  \/ /\ \E r \in Rs : readCancelled(r)
     /\ UNCHANGED extVars

Next == MgrNext(Components, ReplicaAddrs, {"r1"})

Spec == Init /\ [][Next]_vars

\* The handlers that write the stores, without the long-poll callers, which
\* write nothing.
WriteNext ==
  \/ /\ \E c \in Components, a \in ReplicaAddrs :
           registerReplica(GroupOf(c), a, PidOf(a))
     /\ UNCHANGED extVars
  \/ /\ \E c \in Components, k \in 0..Len(locations) :
           startComponent(GroupOf(c), c, IsRouted(c), k)
     /\ UNCHANGED extVars
  \/ cancelCtx /\ UNCHANGED extVars

WriteSpec == Init /\ [][WriteNext]_vars

\* Two concurrent callers and one colocation group, with the scheduler
\* being fair to a caller that can return.
MaxLiveVersion == 2
LiveNext ==
  /\ appState.ver < MaxLiveVersion \/ UNCHANGED appState
  /\ MgrNext({"c1"}, ReplicaAddrs, Readers)

LiveSpec ==
  /\ Init
  /\ [][LiveNext]_vars
  /\ \A r \in Readers : WF_vars(getRoutingInfoWake(r) /\ UNCHANGED extVars)
  /\ \A r \in Readers :
        WF_vars(getComponentsToStartWake(r) /\ UNCHANGED extVars)
  /\ \A r \in Readers : WF_vars(readCancelled(r) /\ UNCHANGED extVars)

\* One caller, one replica address and the components of both colocation
\* groups, with the scheduler being fair to a caller that can return.
StartLiveNext ==
  /\ appState.ver < MaxLiveVersion \/ UNCHANGED appState
  /\ MgrNext(Components, {1}, {"r1"})

StartLiveSpec ==
  /\ Init
  /\ [][StartLiveNext]_vars
  /\ WF_vars(getComponentsToStartWake("r1") /\ UNCHANGED extVars)
  /\ WF_vars(getRoutingInfoWake("r1") /\ UNCHANGED extVars)
  /\ WF_vars(readCancelled("r1") /\ UNCHANGED extVars)

\* The listeners of the workers are exported and, next to the manager, a
\* proxy of its own is given backends and requests.
ProxyNext ==
  \/ /\ \E name \in ListenerNames, addr \in WorkerAddrs,
           localAddress \in LocalAddrs, listen \in ListenOutcomes :
           exportListener(name, addr, localAddress, listen)
     /\ UNCHANGED extVars
  \/ /\ \E backend \in WorkerAddrs : proxyAddBackend(backend)
     /\ UNCHANGED extVars
  \/ /\ \E pick \in 1..MaxBackends + 1 :
           /\ pick <= IF Len(proxy.backends) = 0 THEN 1
                      ELSE Len(proxy.backends)
           /\ proxyServeHTTP(pick)
     /\ UNCHANGED extVars

ProxySpec == Init /\ [][ProxyNext]_vars

\* The startup goroutine and two handler goroutines with the manager's
\* lock.
LockNext ==
  \/ \E handler \in LockedHandlers : lockMu("h1", handler)
  \/ /\ appState.ver < MaxLiveVersion
     /\ \E a \in ReplicaAddrs :
           lockedRegisterReplica("h1", "main", a, PidOf(a))
  \/ /\ appState.ver < MaxLiveVersion
     /\ \E k \in 0..Len(locations) :
           lockedStartComponent("h1", "main", "main", FALSE, k)
  \/ /\ appState.ver < MaxLiveVersion
     /\ \E listen \in ListenOutcomes :
           lockedExportListener("h1", "L", "worker1", "addrX", listen)
  \/ \E report \in Reports : lockedHandleRecvMetrics("h1", "main", 0, report)
  \/ runLock
  \/ /\ appState.ver < MaxLiveVersion
     /\ \E k \in 0..Len(locations) : runStartComponent(k)
  \/ \E k \in 0..Len(locations) : runStartColocationGroup(k)
  \/ \E c \in {"main", "c1"}, v \in CallerVersions(appState.ver) :
        unlockedGetComponentsToStart("r1", GroupOf(c), v)
  \/ unlockedGetComponentsToStartWake("r1")

LockSpec == Init /\ [][LockNext]_vars

\* The startup goroutine, a handler goroutine that is given requests and
\* two long-poll callers; the scheduler is fair to the goroutine that can
\* take the lock and to the one that holds it.
h1Lock == \E handler \in LockedHandlers :
            pc["h1"] = Waiting(handler) /\ lockMu("h1", handler)
h1RegisterReplica ==
  \E a \in ReplicaAddrs : lockedRegisterReplica("h1", "main", a, PidOf(a))
h1StartComponent ==
  \E k \in {0, Len(locations)} :
     lockedStartComponent("h1", "main", "main", FALSE, k)
h1ExportListener ==
  \E listen \in ListenOutcomes :
     lockedExportListener("h1", "L", "worker1", "addrX", listen)
h1HandleRecvMetrics == lockedHandleRecvMetrics("h1", "main", 0, <<>>)
runStart == \E k \in {0, Len(locations)} : runStartComponent(k)
runGroup == \E k \in {0, Len(locations)} : runStartColocationGroup(k)

LockLiveNext ==
  \/ /\ appState.ver < MaxLiveVersion
     /\ \E handler \in LockedHandlers : handlerCall("h1", handler)
  \/ h1Lock
  \/ h1RegisterReplica
  \/ h1StartComponent
  \/ h1ExportListener
  \/ h1HandleRecvMetrics
  \/ appState.ver < MaxLiveVersion /\ runLock
  \/ runStart
  \/ runGroup
  \/ \E v \in CallerVersions(appState.ver) :
        unlockedGetComponentsToStart("r1", "main", v)
  \/ unlockedGetComponentsToStartWake("r1")
  \/ /\ \E v \in CallerVersions(routingState[routingKey("main")].ver) :
           getRoutingInfo("r2", "main", v)
     /\ UNCHANGED extVars
  \/ getRoutingInfoWake("r2") /\ UNCHANGED extVars

LockLiveSpec ==
  /\ Init
  /\ [][LockLiveNext]_vars
  /\ WF_vars(h1Lock)
  /\ WF_vars(h1RegisterReplica)
  /\ WF_vars(h1StartComponent)
  /\ WF_vars(h1ExportListener)
  /\ WF_vars(h1HandleRecvMetrics)
  /\ WF_vars(runStart)

\* Concurrent calls of AddBackend and of the director on one proxy, which
\* leave the other variables alone.
proxyLockRest == <<mgrVarsButProxy, proxies, lastExport, request, algoVars,
                   mgrMetricsVars, lockVars, metricVars, metricMapVars>>
ProxyLockNext ==
  \/ (\E t \in ProxyGoroutines : proxyCall(t)) /\ UNCHANGED proxyLockRest
  \/ (\E t \in ProxyGoroutines : pmuLock(t)) /\ UNCHANGED proxyLockRest
  \/ (\E t \in Adders : AddBackendRead(t)) /\ UNCHANGED proxyLockRest
  \/ (\E t \in Adders : AddBackendWrite(t)) /\ UNCHANGED proxyLockRest
  \/ directorLen("d") /\ UNCHANGED proxyLockRest
  \/ /\ \E pick \in 1..(MaxCalls * Cardinality(Adders)) :
           directorPick("d", pick)
     /\ UNCHANGED proxyLockRest
  \/ (\E t \in ProxyGoroutines : pmuUnlock(t)) /\ UNCHANGED proxyLockRest

ProxyLockSpec == Init /\ [][ProxyLockNext]_vars

\* The goroutine a1 handles exportListener calls of a listener that has a
\* proxy, the goroutine d runs the proxy's director on requests, and the
\* goroutine h1 handles registerReplica calls.
nestedLockRest == <<mgrVarsButProxy, proxies, lastExport, request, algoVars,
                    mgrMetricsVars, metricVars, metricMapVars>>
NestedLockNext ==
  \/ exportAddBackendLock("a1") /\ UNCHANGED nestedLockRest
  \/ (\E t \in {"a1", "d"} : pmuLock(t)) /\ UNCHANGED proxyLockRest
  \/ AddBackendRead("a1") /\ UNCHANGED proxyLockRest
  \/ AddBackendWrite("a1") /\ UNCHANGED proxyLockRest
  \/ (\E t \in {"a1", "d"} : pmuUnlock(t)) /\ UNCHANGED proxyLockRest
  \/ exportAddBackendUnlock("a1") /\ UNCHANGED nestedLockRest
  \/ proxyCall("d") /\ UNCHANGED proxyLockRest
  \/ directorLen("d") /\ UNCHANGED proxyLockRest
  \/ (\E pick \in 1..MaxCalls : directorPick("d", pick))
     /\ UNCHANGED proxyLockRest
  \/ /\ appState.ver < MaxLiveVersion
     /\ lockMu("h1", "registerReplica")
  \/ \E a \in ReplicaAddrs : lockedRegisterReplica("h1", "main", a, PidOf(a))

NestedLockSpec == Init /\ [][NestedLockNext]_vars

\* A counter is added to and values are put into a histogram with any bounds.
metricOpsRest == <<mgrVars, algoVars, mgrMetricsVars, lockVars,
                   proxyLockVars, metricMapVars>>
metricMapRest == <<mgrVars, algoVars, mgrMetricsVars, lockVars,
                   proxyLockVars, metricVars>>
metricsRest == <<mgrVars, algoVars, lockVars, pkgVars>>

MetricOpsInit ==
  /\ MgrInit
  /\ AlgoOff
  /\ hist \in {NewMetric(b) : b \in BoundLists}

MetricOpsNext ==
  \/ (\E delta \in Deltas : CounterAdd(delta)) /\ UNCHANGED metricOpsRest
  \/ (\E val \in PutValues : HistogramPut(val)) /\ UNCHANGED metricOpsRest

MetricOpsSpec == MetricOpsInit /\ [][MetricOpsNext]_vars

\* Concurrent calls of Get on one MetricMap.
MetricMapNext ==
  \/ /\ \E t \in GetGoroutines, labels \in Labels : getCall(t, labels)
     /\ UNCHANGED metricMapRest
  \/ (\E t \in GetGoroutines : mmLock(t)) /\ UNCHANGED metricMapRest
  \/ (\E t \in GetGoroutines : getLookup(t)) /\ UNCHANGED metricMapRest
  \/ (\E t \in GetGoroutines : metricsLock(t)) /\ UNCHANGED metricMapRest
  \/ (\E t \in GetGoroutines : newMetric(t)) /\ UNCHANGED metricMapRest
  \/ (\E t \in GetGoroutines : getStore(t)) /\ UNCHANGED metricMapRest
  \/ (\E t \in GetGoroutines : mmUnlock(t)) /\ UNCHANGED metricMapRest

MetricMapSpec == Init /\ [][MetricMapNext]_vars

\* The babysitters report their metrics and the status page queries them.
MetricsNext ==
  \/ /\ \E k \in MetricsKeys, report \in Reports :
           handleRecvMetrics(k[1], k[2], report)
     /\ UNCHANGED metricsRest
  \/ (\E order \in Orders(DOMAIN metrics) : Metrics(order))
     /\ UNCHANGED metricsRest

MetricsSpec == Init /\ [][MetricsNext]_vars

\* ------------------------------------------- routing algorithm harness
\* routingAlgo is called on an assignment and a list of distinct candidate
\* addresses in any order, then called again on any order of the same
\* candidates and either the first result or a fresh assignment.
InitialAssignment == [component |-> "c1", version |-> 0, slices |-> <<>>]

CandidateLists ==
  UNION {{s \in [1..n -> Addrs] : \A i, j \in 1..n : i # j => s[i] # s[j]} :
           n \in 0..MaxAddrs}

AlgoInit ==
  /\ MgrInit
  /\ HistogramOff
  /\ algoPc = "ready"
  /\ algoIn \in [curr : {InitialAssignment,
                         routingAlgo(InitialAssignment, <<1>>)},
                 candidates : CandidateLists]
  /\ algoOut1 = InitialAssignment
  /\ algoOut2 = InitialAssignment

algoCall ==
  /\ algoPc = "ready"
  /\ algoOut1' = routingAlgo(algoIn.curr, algoIn.candidates)
  /\ algoPc' = "called"
  /\ UNCHANGED <<algoIn, algoOut2, mgrVars>>

algoCallAgain ==
  /\ algoPc = "called"
  /\ \E curr \in {algoOut1, InitialAssignment},
        order \in Orders(Range(algoIn.candidates)) :
        /\ algoOut2' = routingAlgo(curr, order)
        /\ algoIn' = [algoIn EXCEPT !.curr = curr, !.candidates = order]
  /\ algoPc' = "done"
  /\ UNCHANGED <<algoOut1, mgrVars>>

AlgoNext ==
  \/ algoCall /\ UNCHANGED extVars
  \/ algoCallAgain /\ UNCHANGED extVars

SpecAlgo == AlgoInit /\ [][AlgoNext]_vars

\* The group g whose replicas registered in the order of the candidates
\* and whose routed component c1 has the assignment curr.
groupOf(in) ==
  [NewGroup("g") EXCEPT
     !.components = MapPut(EmptyMap, "c1", TRUE),
     !.replicas = in.candidates,
     !.replicaPids = [i \in DOMAIN in.candidates |-> PidOf(in.candidates[i])],
     !.assignments = MapPut(EmptyMap, "c1", in.curr)]

\* The end of registerReplica and of startComponent on that group: the
\* routing information is generated and stored, then the app state.
storeGroup ==
  /\ algoPc = "ready"
  /\ LET r == mayGenerateNewRoutingInfo(groupOf(algoIn), <<"c1">>)
     IN /\ routingState' = r.routing
        /\ appState' = VersionedUpdate(appState,
              [NewAppVersionState EXCEPT !.groups = MapPut(@, "g", r.g)])
  /\ algoPc' = "stored"
  /\ UNCHANGED <<algoIn, algoOut1, algoOut2, started, launched, rd, ctxDone,
                 reqCtxDone, startErr, proxyVars>>

\* The manager then handles registrations and starts in that group.
StoreNext ==
  \/ storeGroup /\ UNCHANGED extVars
  \/ /\ algoPc = "stored"
     /\ \E a \in ReplicaAddrs : registerReplica("g", a, PidOf(a))
     /\ UNCHANGED extVars
  \/ /\ algoPc = "stored"
     /\ startComponent("g", "c1", TRUE, Len(locations))
     /\ UNCHANGED extVars

StoreSpec == AlgoInit /\ [][StoreNext]_vars

\* ================================================================ claims
KeyLess(a, b) ==
  \E j \in 1..NumLimbs : /\ a[j] < b[j]
                         /\ \A i \in 1..(j-1) : a[i] = b[i]

\* The slice starts are strictly increasing from key 0: slice i covers the
\* keys from its start up to the start of slice i+1, the last one up to the
\* end of the key space.
SlicesPartition(asg) ==
  /\ Len(asg.slices) >= 1
  /\ asg.slices[1].start = KeyZero
  /\ \A i \in 1..(Len(asg.slices) - 1) :
        KeyLess(asg.slices[i].start, asg.slices[i+1].start)

\* C1: for every non-empty candidate list the slices routingAlgo returns
\* start at key 0 and have strictly increasing start keys, so that they
\* partition the key space without gap or overlap.
C1_SlicesPartitionKeySpace ==
  algoIn.candidates # <<>> =>
    /\ algoPc \in {"called", "done"} => SlicesPartition(algoOut1)
    /\ algoPc = "done" => SlicesPartition(algoOut2)

C1_Witness ==
  /\ algoPc = "done"
  /\ Len(algoIn.candidates) = 3
  /\ Len(algoOut2.slices) = 4
  /\ SlicesPartition(algoOut2)

\* The slice count the claim gives for n candidates.
IsExpectedSliceCount(n, m) ==
  IF n = 0 THEN m = 0
  ELSE IF n = 1 THEN m = 1
  ELSE /\ \E k \in 1..n : m = 2^k
       /\ m >= n
       /\ m < 2 * n

\* C2: routingAlgo returns no slice for no candidate, one slice for one
\* candidate, and for n >= 2 candidates the smallest power of two >= n.
C2_SliceCount ==
  /\ algoPc \in {"called", "done"} =>
       IsExpectedSliceCount(Len(algoIn.candidates), Len(algoOut1.slices))
  /\ algoPc = "done" =>
       IsExpectedSliceCount(Len(algoIn.candidates), Len(algoOut2.slices))

C2_Witness ==
  /\ algoPc = "called"
  /\ Len(algoIn.candidates) = 5
  /\ Len(algoOut1.slices) = 8

\* The candidate with exactly r smaller candidates owns the slice, alone.
OwnedByRank(slice, candidates, r) ==
  /\ Len(slice.replicas) = 1
  /\ slice.replicas[1] \in Range(candidates)
  /\ Cardinality({b \in Range(candidates) : b < slice.replicas[1]}) = r

RoundRobinOwners(asg, candidates) ==
  \A i \in 1..Len(asg.slices) :
     OwnedByRank(asg.slices[i], candidates, (i - 1) % Len(candidates))

\* C3: for n >= 2 candidates slice i (from 0, in start-key order) is owned
\* by exactly one replica, the candidate at index i mod n of the sorted
\* candidate list.
C3_RoundRobinOwners ==
  Len(algoIn.candidates) >= 2 =>
    /\ algoPc \in {"called", "done"} =>
         RoundRobinOwners(algoOut1, algoIn.candidates)
    /\ algoPc = "done" => RoundRobinOwners(algoOut2, algoIn.candidates)

C3_Witness ==
  /\ algoPc = "called"
  /\ algoIn.candidates = <<3, 1, 2>>
  /\ [i \in 1..4 |-> algoOut1.slices[i].replicas] = <<<<1>>, <<2>>, <<3>>, <<1>>>>

\* The stored form of i * 2^(KeyBits - k), for i < 2^k and k <= LimbBits.
KeyOfMultiple(i, k) ==
  [j \in 1..NumLimbs |-> IF j = 1 THEN i * 2^(LimbBits - k) ELSE 0]

EqualWidth(asg) ==
  LET m == Len(asg.slices)
      k == CHOOSE e \in 0..m : 2^e >= m /\ (e = 0 \/ 2^(e-1) < m)
  IN \A i \in 0..(m - 1) : asg.slices[i+1].start = KeyOfMultiple(i, k)

C5_SlicesDependOnCandidateSet ==
  algoPc = "done" => algoOut2.slices = algoOut1.slices

C5_Witness ==
  /\ algoPc = "done"
  /\ algoIn.candidates = <<3, 1, 2>>
  /\ algoOut1.version # algoOut2.version
  /\ Len(algoOut2.slices) = 4
  /\ algoOut2.slices = algoOut1.slices

\* The stored group g of the app state (an empty group when absent).
StoredGroup(state, g) == findOrAddGroup(state.val, g)

\* The step is a registerReplica or a startComponent on group g.
RecomputeOf(g) ==
  /\ appState' # appState
  /\ \/ \E a \in ReplicaAddrs : registerReplica(g, a, PidOf(a))
     \/ \E c \in Components, k \in 0..Len(locations) :
           GroupOf(c) = g /\ startComponent(g, c, IsRouted(c), k)

\* C6: the stored version of the assignment of every routed component never
\* decreases, and every registerReplica or startComponent on its group
\* stores the previous version plus one, whether or not the slices change.
C6_AssignmentVersionsIncrease ==
  [][\A g \in Groups :
       LET old == StoredGroup(appState, g)
           new == StoredGroup(appState', g)
       IN \A c \in DOMAIN old.assignments :
            /\ c \in DOMAIN new.assignments
            /\ new.assignments[c].version >= old.assignments[c].version
            /\ \/ new.assignments[c].version = old.assignments[c].version + 1
               \/ ~RecomputeOf(g)]_vars

C6_Witness ==
  /\ "g" \in DOMAIN appState.val.groups
  /\ "c1" \in DOMAIN appState.val.groups["g"].assignments
  /\ appState.val.groups["g"].assignments["c1"].version = 3
  /\ appState.val.groups["g"].replicas = <<1>>
  /\ \E i \in DOMAIN routingState[routingKey("g")].val.assignments :
        routingState[routingKey("g")].val.assignments[i].version = 3

\* C7: every write of a key of a versioned map gives the record a version
\* strictly greater than the one it had, so the versions of a key strictly
\* increase over its writes.
C7_StoreVersionsIncrease ==
  [][/\ appState' # appState => appState'.ver > appState.ver
     /\ \A k \in DOMAIN routingState :
          routingState'[k] # routingState[k] =>
            routingState'[k].ver > routingState[k].ver]_vars

C7_Witness ==
  /\ appState.ver = 3
  /\ routingState[routingKey("g")].ver = 3
  /\ routingState[routingKey("main")].ver = NoVersion

\* The record a caller reads: the routing record of its group for
\* getRoutingInfo, the app state record for getComponentsToStart.
RecordOf(c) ==
  IF c.op = "getRoutingInfo" THEN routingState[routingKey(c.group)]
  ELSE appState

\* The reply of a returned caller carries the value and version of rec.
ReplyIs(c, rec) ==
  /\ c.reply.version = rec.ver
  /\ IF c.op = "getRoutingInfo"
       THEN /\ c.reply.replicas = rec.val.replicas
            /\ c.reply.assignments = rec.val.assignments
     ELSE c.reply.components =
            DOMAIN findOrAddGroup(rec.val, c.group).components

\* C8: a read returns the current value and version without waiting when
\* the caller's version is empty or is not the current version of the key;
\* when it is the current version the read waits, and it returns only after
\* a write of that key, with the value then current, or after the context
\* is cancelled.
C8_ReadReturnsOrWaits ==
  [][\A r \in Readers :
       /\ (rd[r].st = "idle" /\ rd'[r].st # "idle") =>
            LET rec == RecordOf(rd'[r])
            IN IF rd'[r].version = NoVersion \/ rd'[r].version # rec.ver
                 THEN /\ rd'[r].st = "returned"
                      /\ ~rd'[r].waited
                      /\ ReplyIs(rd'[r], rec)
               ELSE rd'[r].st = "blocked"
       /\ (rd[r].st = "blocked" /\ rd'[r].st # "blocked") =>
            \/ /\ rd'[r].st = "returned"
               /\ RecordOf(rd[r]).ver # rd[r].version
               /\ ReplyIs(rd'[r], RecordOf(rd[r]))
            \/ /\ rd'[r].st = "cancelled"
               /\ ctxDone]_vars

C8_Witness ==
  /\ rd["r1"].st = "returned"
  /\ rd["r1"].op = "getRoutingInfo"
  /\ rd["r1"].waited
  /\ rd["r1"].version = 1
  /\ rd["r1"].reply.version = 2
  /\ rd["r1"].reply.replicas = <<1>>

\* C9: under fair scheduling a caller waiting in a read of key K with
\* version v stops waiting once K has been written, and a caller that had
\* to wait and returned has a version newer than v.
C9_BlockedReaderWakes ==
  /\ \A r \in Readers :
       (rd[r].st = "blocked" /\ RecordOf(rd[r]).ver # rd[r].version)
          ~> (rd[r].st # "blocked")
  /\ [](\A r \in Readers :
          (rd[r].st = "returned" /\ rd[r].waited) =>
             rd[r].reply.version > rd[r].version)

C9_Witness ==
  /\ rd["r1"].st = "returned" /\ rd["r1"].waited
  /\ rd["r2"].st = "returned" /\ rd["r2"].waited
  /\ rd["r1"].op = "getRoutingInfo"
  /\ rd["r2"].op = "getRoutingInfo"
  /\ rd["r1"].reply.version > rd["r1"].version

\* The step is a registerReplica on group g of an address not yet
\* registered there.
RegistersNew(g, a) ==
  /\ appState' # appState
  /\ a \notin Range(StoredGroup(appState, g).replicas)
  /\ registerReplica(g, a, PidOf(a))

\* C10: registerReplica of a new address of a group writes the group's
\* routing record with the address in its replicas, and a getRoutingInfo
\* that waits with the version that was current returns, unless the
\* manager's context is cancelled, with another version and a replica list
\* that contains the address.
C10_RegisterUnblocksRoutingInfo ==
  /\ [][\A g \in Groups, a \in ReplicaAddrs :
          RegistersNew(g, a) =>
            /\ routingState'[routingKey(g)].ver # routingState[routingKey(g)].ver
            /\ a \in Range(routingState'[routingKey(g)].val.replicas)]_vars
  /\ \A r \in Readers, a \in ReplicaAddrs :
       (/\ rd[r].st = "blocked"
        /\ rd[r].op = "getRoutingInfo"
        /\ RecordOf(rd[r]).ver # rd[r].version
        /\ a \in Range(RecordOf(rd[r]).val.replicas))
          ~> (\/ ctxDone
              \/ /\ rd[r].st = "returned"
                 /\ rd[r].reply.version # rd[r].version
                 /\ a \in Range(rd[r].reply.replicas))

C10_Witness ==
  /\ rd["r1"].st = "returned"
  /\ rd["r1"].op = "getRoutingInfo"
  /\ rd["r1"].waited
  /\ rd["r1"].version = 1
  /\ rd["r1"].reply.version = 2
  /\ rd["r1"].reply.replicas = <<1, 2>>
  /\ ~ctxDone

\* C11: cancelling the context of the request of a waiting caller makes
\* that caller stop waiting with a cancellation error, a caller gets a
\* cancellation error only when its own context or the manager's was
\* cancelled, and the cancellation leaves every other waiting caller waiting.
C11_CancelUnblocksThatCaller ==
  /\ \A r \in Readers :
       (rd[r].st = "blocked" /\ r \in reqCtxDone) ~> (rd[r].st = "cancelled")
  /\ [][\A r \in Readers :
          (rd[r].st = "blocked" /\ rd'[r].st = "cancelled") =>
             (r \in reqCtxDone \/ ctxDone)]_vars
  /\ [][\A r, o \in Readers :
          (r # o /\ reqCtxDone' = reqCtxDone \cup {r} /\ r \notin reqCtxDone
             /\ rd[o].st = "blocked") => rd'[o].st = "blocked"]_vars

\* No address occurs twice in the sequence.
NoDuplicates(seq) ==
  \A i, j \in DOMAIN seq : i # j => seq[i] # seq[j]

\* C12: the stored replica list of every group holds each address at most
\* once; a registerReplica of an address the group already has leaves the
\* length of the list unchanged, and one of a new address makes the list
\* hold the address and be longer by exactly one.
C12_ReplicasRegisteredOnce ==
  /\ [](\A g \in Groups : NoDuplicates(StoredGroup(appState, g).replicas))
  /\ [][appState' # appState =>
          \A g \in Groups, a \in ReplicaAddrs :
            registerReplica(g, a, PidOf(a)) =>
              LET old == StoredGroup(appState, g).replicas
                  new == StoredGroup(appState', g).replicas
              IN /\ Range(new) = Range(old) \cup {a}
                 /\ Len(new) = IF a \in Range(old) THEN Len(old)
                               ELSE Len(old) + 1]_vars

C12_Witness ==
  /\ appState.ver = 3
  /\ DOMAIN appState.val.groups = {"g"}
  /\ appState.val.groups["g"].replicas = <<1, 2>>
  /\ DOMAIN appState.val.groups["g"].components = {}

\* C13: a registerReplica of an address the group already has leaves the
\* group (replicas, pids, assignments) and the values stored in the
\* app-state record and in every routing record as they were.
C13_RegisterReplicaIdempotent ==
  [][appState' # appState =>
       \A g \in Groups, a \in ReplicaAddrs :
         (/\ a \in Range(StoredGroup(appState, g).replicas)
          /\ registerReplica(g, a, PidOf(a))) =>
            /\ StoredGroup(appState', g) = StoredGroup(appState, g)
            /\ appState'.val = appState.val
            /\ \A k \in DOMAIN routingState :
                 routingState'[k].val = routingState[k].val]_vars

\* The step leaves the replica set of group g and the components and
\* slices of its assignments as they were.
SameRoutingContent(g) ==
  LET old == StoredGroup(appState, g)
      new == StoredGroup(appState', g)
  IN /\ Range(new.replicas) = Range(old.replicas)
     /\ DOMAIN new.assignments = DOMAIN old.assignments
     /\ \A c \in DOMAIN old.assignments :
          new.assignments[c].slices = old.assignments[c].slices

\* C14: a registerReplica or startComponent on a group that changes neither
\* the replica set of the group nor the slices of any of its assignments
\* does not write the routing record of the group, so that no reader of
\* that record is woken.
C14_RoutingWrittenOnlyOnChange ==
  [][appState' # appState =>
       \A g \in Groups :
         (SameRoutingContent(g) /\ RecomputeOf(g)) =>
            routingState'[routingKey(g)] = routingState[routingKey(g)]]_vars

\* C15: over any sequence of startComponent calls the babysitter of a group
\* is launched at most once at each location.
C15_LaunchedOncePerLocation ==
  \A g \in Groups : \A i \in DOMAIN locations : launched[g][i] <= 1

\* C16: a startComponent for a group that is in the started set launches
\* no babysitter, leaves the started set as it is and returns no error,
\* whatever component it names.
C16_StartedGroupIsNotRestarted ==
  [][appState' # appState =>
       \A c \in Components :
         (/\ GroupOf(c) \in started
          /\ \E k \in 0..Len(locations) :
                startComponent(GroupOf(c), c, IsRouted(c), k)) =>
            /\ launched' = launched
            /\ started' = started
            /\ startErr' = FALSE]_vars

C16_Witness ==
  /\ "g" \in started
  /\ launched["g"] = <<1, 1>>
  /\ ~startErr
  /\ appState.ver = 2
  /\ DOMAIN appState.val.groups = {"g"}
  /\ DOMAIN appState.val.groups["g"].components = {"c1", "c2"}

\* The step is an exportListener: only it writes the list of listeners.
IsExport == appState'.val.listeners # appState.val.listeners

\* C17: an exportListener for a listener name that has a proxy returns the
\* address of that proxy with no error, binds no listener, and appends the
\* caller's address to the proxy's backends; the first export of a name
\* whose listen succeeds creates the proxy with the caller as its only
\* backend; each listener name has one proxy with a listener of its own.
C17_OneProxyPerListener ==
  /\ [](Cardinality(BoundAddrs) = Cardinality(DOMAIN proxies))
  /\ [][IsExport =>
          LET e == lastExport'
          IN IF e.name \in DOMAIN proxies
               THEN /\ DOMAIN proxies' = DOMAIN proxies
                    /\ BoundAddrs' = BoundAddrs
                    /\ proxies'[e.name].addr = proxies[e.name].addr
                    /\ proxies'[e.name].backends =
                         Append(proxies[e.name].backends, e.addr)
                    /\ e.reply = [proxyAddress |-> proxies[e.name].addr,
                                  error |-> ""]
                    /\ ~e.err
             ELSE e.listen = "ok" =>
                    /\ proxies' = MapPut(proxies, e.name,
                                    [addr |-> e.localAddress,
                                     backends |-> <<e.addr>>])
                    /\ e.reply = [proxyAddress |-> e.localAddress,
                                  error |-> ""]
                    /\ ~e.err]_vars

C17_Witness ==
  /\ DOMAIN proxies = {"L"}
  /\ proxies["L"] = [addr |-> "addrX",
                     backends |-> <<"worker1", "worker2">>]
  /\ lastExport.name = "L"
  /\ lastExport.addr = "worker2"
  /\ lastExport.localAddress = "addrY"
  /\ lastExport.reply.proxyAddress = "addrX"

\* C18: when the listener name has no proxy and net.Listen fails with
\* EADDRINUSE, exportListener returns a reply with the error field set and
\* no call error; when it fails otherwise, exportListener returns a call
\* error; in both cases no proxy is created.
C18_BindFailureCreatesNoProxy ==
  [][IsExport =>
       LET e == lastExport'
       IN (e.name \notin DOMAIN proxies /\ e.listen # "ok") =>
            /\ proxies' = proxies
            /\ IF e.listen = "EADDRINUSE"
                 THEN e.reply.error # "" /\ ~e.err
               ELSE e.err]_vars

C18_Witness ==
  /\ lastExport.listen = "EADDRINUSE"
  /\ lastExport.reply.error = "EADDRINUSE"
  /\ ~lastExport.err
  /\ proxies = EmptyMap
  /\ Len(appState.val.listeners) = 1

\* s is t or t with one more entry at its end.
AppendedTo(s, t) ==
  \/ s = t
  \/ Len(s) = Len(t) + 1 /\ SubSeq(s, 1, Len(t)) = t

\* C19: in every step the backend list of every proxy stays as it is or
\* gets exactly one entry at its end, and no proxy goes away: the list is
\* append-only.
C19_BackendsAppendOnly ==
  [][/\ AppendedTo(proxy'.backends, proxy.backends)
     /\ \A n \in DOMAIN proxies :
          /\ n \in DOMAIN proxies'
          /\ AppendedTo(proxies'[n].backends, proxies[n].backends)]_vars

C19_Witness ==
  /\ proxy.backends = <<"worker2", "worker1">>
  /\ "L" \in DOMAIN proxies
  /\ proxies["L"].backends = <<"worker2", "worker1">>

\* C20: the director rewrites the target of a request to http and a
\* backend that is in the proxy's list at that moment when the list is not
\* empty; when it is empty the director leaves the target as it was and
\* logs that there is no backend.
C20_DirectorPicksBackend ==
  [][request' # request =>
       IF proxy.backends # <<>>
         THEN /\ request'.out.scheme = "http"
              /\ request'.out.host \in Range(proxy.backends)
              /\ request'.logged = ""
       ELSE /\ request'.out = request'.in
            /\ request'.logged = "no backends"]_vars

C20_Witness ==
  /\ request.served
  /\ proxy.backends = <<"worker1", "worker2">>
  /\ request.out = [scheme |-> "http", host |-> "worker2"]

\* C24: in the stored state of every group the lists replicas and
\* replicaPids have the same length and replicaPids[i] is the pid that was
\* registered together with the address replicas[i].
C24_ReplicaPidsParallel ==
  \A g \in Groups :
    LET s == StoredGroup(appState, g)
    IN /\ Len(s.replicaPids) = Len(s.replicas)
       /\ \A i \in DOMAIN s.replicas : s.replicaPids[i] = PidOf(s.replicas[i])

StrictlyAscending(seq) ==
  \A i \in 1..(Len(seq) - 1) : seq[i] < seq[i+1]

\* C25: the replicas of every written routing record are in ascending
\* order without duplicates, and they are the addresses registered for the
\* group of the record.
C25_RoutingReplicasSorted ==
  \A g \in Groups :
    LET rec == routingState[routingKey(g)]
    IN rec.ver # NoVersion =>
         /\ StrictlyAscending(rec.val.replicas)
         /\ Range(rec.val.replicas) = Range(StoredGroup(appState, g).replicas)

\* Address 2 was registered before address 1.
C25_Witness ==
  /\ routingState[routingKey("g")].val.replicas = <<1, 2>>
  /\ "g" \in DOMAIN appState.val.groups
  /\ appState.val.groups["g"].replicaPids = <<PidOf(2), PidOf(1)>>

\* Everything of the group old is in the group new.
GroupGrows(old, new) ==
  /\ DOMAIN old.components \subseteq DOMAIN new.components
  /\ Range(old.replicas) \subseteq Range(new.replicas)
  /\ Range(old.replicaPids) \subseteq Range(new.replicaPids)
  /\ DOMAIN old.assignments \subseteq DOMAIN new.assignments

\* C26: a registerReplica or a startComponent on a group leaves the group in
\* the stored app state, and no write of the app state removes a group, or
\* a component, a replica or an assignment of a group.
C26_GroupStateOnlyGrows ==
  [][appState' # appState =>
       \A g \in Groups :
         /\ g \in DOMAIN appState.val.groups =>
              /\ g \in DOMAIN appState'.val.groups
              /\ GroupGrows(appState.val.groups[g], appState'.val.groups[g])
         /\ g \in DOMAIN appState'.val.groups \/ ~RecomputeOf(g)]_vars

C26_Witness ==
  /\ DOMAIN appState.val.groups = {"main", "g"}
  /\ DOMAIN appState.val.groups["g"].components = {"c1"}
  /\ DOMAIN appState.val.groups["g"].assignments = {"c1"}
  /\ Len(appState.val.groups["g"].replicas) = 1
  /\ appState.val.groups["main"].replicas = <<>>

\* The slices of the assignment cover the key space over the replicas: none
\* when there is no replica, and otherwise a partition of the key space of
\* which every slice has replicas of the list and every replica of the list
\* has a slice.
CoversKeySpace(asg, replicas) ==
  IF replicas = <<>> THEN asg.slices = <<>>
  ELSE /\ SlicesPartition(asg)
       /\ \A i \in DOMAIN asg.slices :
             /\ asg.slices[i].replicas # <<>>
             /\ Range(asg.slices[i].replicas) \subseteq Range(replicas)
       /\ \A a \in Range(replicas) :
             \E i \in DOMAIN asg.slices : a \in Range(asg.slices[i].replicas)

\* C30: after a startComponent of a routed component the group has an
\* assignment of the component, the routing record of the group holds that
\* assignment, its slices cover the key space over the replicas of the group
\* (no slices when there are none), and the version of an assignment the
\* component already had is not reset: it is higher than before.
C30_StartRoutedComponent ==
  [][appState' # appState =>
       \A c \in Components :
         LET g == GroupOf(c)
             old == StoredGroup(appState, g)
             new == StoredGroup(appState', g)
             rec == routingState'[routingKey(g)].val
         IN (/\ IsRouted(c)
             /\ \E k \in 0..Len(locations) : startComponent(g, c, TRUE, k)) =>
              /\ c \in DOMAIN new.assignments
              /\ \E i \in DOMAIN rec.assignments :
                    rec.assignments[i] = new.assignments[c]
              /\ rec.replicas = new.replicas
              /\ CoversKeySpace(new.assignments[c], new.replicas)
              /\ c \in DOMAIN old.assignments =>
                   new.assignments[c].version > old.assignments[c].version
              /\ c \notin DOMAIN old.assignments =>
                   new.assignments[c].version = 1]_vars

\* Two startComponent of c1 and the registration of a replica.
C30_Witness ==
  /\ appState.ver = 3
  /\ DOMAIN appState.val.groups = {"g"}
  /\ DOMAIN appState.val.groups["g"].components = {"c1"}
  /\ appState.val.groups["g"].replicas = <<1>>
  /\ appState.val.groups["g"].assignments["c1"].version = 3
  /\ Len(appState.val.groups["g"].assignments["c1"].slices) = 1
  /\ launched["g"][1] = 2

\* The number of times x occurs in the list seq.
Count(seq, x) == Cardinality({i \in DOMAIN seq : seq[i] = x})

RECURSIVE CountIn(_, _, _)
\* The number of times x occurs in the reports of the map f at the keys K.
CountIn(f, K, x) ==
  IF K = {} THEN 0
  ELSE LET k == CHOOSE k \in K : TRUE
       IN Count(f[k], x) + CountIn(f, K \ {k}, x)

AllSnapshots == UNION {Range(report) : report \in Reports}

\* C23: a metrics report of (group, replica id) makes the manager's entry of
\* that key the report, whatever the entry was, and leaves every other
\* entry as it was; the Metrics query replies with the snapshots of the
\* latest reports of all keys, each as often as the reports hold it.
C23_MetricsAreLatestReports ==
  [][/\ \A k \in MetricsKeys, report \in Reports :
          handleRecvMetrics(k[1], k[2], report) =>
            /\ DOMAIN metrics' = DOMAIN metrics \cup {k}
            /\ metrics'[k] = report
            /\ \A k2 \in DOMAIN metrics \ {k} : metrics'[k2] = metrics[k2]
     /\ ms' # ms =>
          /\ ms'.replied
          /\ \A x \in AllSnapshots \cup Range(ms'.metrics) :
                Count(ms'.metrics, x) = CountIn(metrics, DOMAIN metrics, x)]_vars

\* The query was answered when replica 0 of g had reported m1 = 1; its
\* entry is now the later report and replica 1 has reported too.
C23_Witness ==
  /\ ms = [replied |-> TRUE, metrics |-> <<Snapshot("m1", 1)>>]
  /\ DOMAIN metrics = {<<"g", 0>>, <<"g", 1>>}
  /\ metrics[<<"g", 0>>] = <<Snapshot("m1", 2), Snapshot("m2", 1)>>
  /\ metrics[<<"g", 1>>] = <<Snapshot("m1", 1)>>

\* C22: every write of the manager's state (the group state loaded from the
\* app-state record, the started set, the proxies, the metrics) is made by
\* a goroutine that holds the manager's lock.
C22_WritesHoldTheLock == lastWrite.held

\* The calls of AddBackend that goroutine t has completed the write of.
Added(t) == IF pg[t].pc \in {"idle", "unlock"} THEN pg[t].calls
            ELSE pg[t].calls - 1

\* C21: with AddBackend called concurrently with other AddBackend and with
\* the director, the list holds every backend as often as it was added, so
\* none is lost, and the director works on a list that no AddBackend is in
\* the middle of changing: the length it read is the length of the list it
\* indexes, and the host it chose is in the list.
C21_AddBackendConcurrent ==
  /\ \A t \in Adders : Count(proxy.backends, BackendOf(t)) = Added(t)
  /\ pg["d"].pc = "pick" =>
       /\ pg["d"].n = Len(proxy.backends)
       /\ \A t \in Adders : pg[t].pc \notin {"locked", "read", "unlock"}
  /\ pg["d"].host # "" => pg["d"].host \in Range(proxy.backends)

\* The director holds the lock and has read the length of a list to which
\* a1 has added twice and a2 once; a2 waits for the lock with its second
\* backend.
C21_Witness ==
  /\ proxy.backends = <<"worker2", "worker1", "worker1">>
  /\ pmu = "d"
  /\ pg["d"].pc = "pick"
  /\ pg["d"].n = 3
  /\ pg["a2"].pc = "call"
  /\ pg["a2"].calls = 2

\* C27: a counter never decreases: its Add with a negative delta leaves
\* the value as it was (the call panics).
C27_CounterNeverDecreases ==
  [][\A delta \in Deltas :
       CounterAdd(delta) =>
         /\ FloatGeq(counter'.value, counter.value)
         /\ FloatLess(delta, 0) => counter'.value = counter.value]_vars

\* Every metric of the MetricMap is in the list of all metrics once, under
\* its labels.
MadeOnce(labels) ==
  /\ Count(allMetrics, labels) = 1
  /\ allMetrics[mmMetrics[labels]] = labels

\* C28: under every interleaving of calls of Get, each distinct label has
\* at most one metric in the list of all metrics, exactly one once the map
\* has the label, and every call of Get with the label has returned that
\* metric.
C28_GetMakesOneMetric ==
  /\ \A labels \in Labels : Count(allMetrics, labels) <= 1
  /\ \A labels \in DOMAIN mmMetrics : MadeOnce(labels)
  /\ \A t \in GetGoroutines :
        gt[t].ret # NoReturn =>
          /\ gt[t].ret.labels \in DOMAIN mmMetrics
          /\ gt[t].ret.metric = mmMetrics[gt[t].ret.labels]

\* g1 made the metric of x; g2, which called Get(x) while g1 held the lock,
\* was returned the same metric.
C28_Witness ==
  /\ allMetrics = <<"x">>
  /\ gt["g1"].ret = [labels |-> "x", metric |-> 1]
  /\ gt["g2"].ret = [labels |-> "x", metric |-> 1]
  /\ gt["g1"].metric = 1
  /\ gt["g2"].metric = NoMetric
  /\ gt["g2"].calls = 1

RECURSIVE SumSeq(_)
SumSeq(seq) == IF seq = <<>> THEN 0 ELSE Head(seq) + SumSeq(Tail(seq))

\* The bucket (from 0) the bounds b give the value v: 0 below the first
\* bound, n from the last bound on, and i from bound i-1 up to bound i.
BucketOf(b, v) ==
  LET n == Len(b)
  IN CHOOSE i \in 0..n :
       \/ i = 0 /\ v < b[1]
       \/ i = n /\ v >= b[n]
       \/ i > 0 /\ i < n /\ b[i] <= v /\ v < b[i + 1]

StartsGroup(g, k) ==
  /\ appState' # appState
  /\ g \notin started
  /\ \E c \in Components :
        GroupOf(c) = g /\ startComponent(g, c, IsRouted(c), k)

\* C31: when, in the start of a group, the launch at one location fails,
\* the babysitter is still launched at every other location in that pass,
\* and the group is not recorded as started.
C31_FailureDoesNotAbortPlacement ==
  [][\A g \in Groups, k \in 0..(Len(locations) - 1) :
       StartsGroup(g, k) =>
         /\ g \notin started'
         /\ \A i \in DOMAIN locations :
               i # k + 1 => launched'[g][i] = launched[g][i] + 1]_vars

\* C32: a group enters the started set only in a startComponent in which
\* the launch at every location succeeded; a startComponent in which a
\* launch fails returns an error, leaves the group out of the started set
\* and the manager running, and a later startComponent of the group
\* launches again, from the first location on.
C32_StartedOnlyAfterFullPass ==
  [][/\ \A g \in Groups :
          (g \notin started /\ g \in started') =>
             StartsGroup(g, Len(locations))
     /\ \A g \in Groups, k \in 0..Len(locations) :
          StartsGroup(g, k) =>
            /\ startErr' = (k < Len(locations))
            /\ (g \in started') = (k = Len(locations))
            /\ ~ctxDone'
            /\ \A i \in DOMAIN locations :
                  launched'[g][i] =
                     IF i <= k THEN launched[g][i] + 1 ELSE launched[g][i]]_vars

\* The first start of g failed at the second location, the retry succeeded
\* at both.
C32_Witness ==
  /\ "g" \in started
  /\ launched["g"] = <<2, 1>>
  /\ ~startErr
  /\ appState.ver = 2

\* C33: a babysitter is never launched by a goroutine that holds the
\* manager's lock: in startComponent the launches of the group come after
\* the lock is released.
C33_NoLaunchUnderTheLock ==
  [][launched' # launched =>
       \A t \in Goroutines : ~(mu = t /\ pc[t] = "startComponent")]_vars

\* The step is an exportListener that fails: it returns an error, or a
\* reply that carries one.
FailedExport ==
  \E name \in ListenerNames, addr \in WorkerAddrs, localAddress \in LocalAddrs,
     listen \in ListenOutcomes :
       /\ exportListener(name, addr, localAddress, listen)
       /\ lastExport'.err \/ lastExport'.reply.error # ""

\* C39: an exportListener that fails, the address being in use or the bind
\* failing otherwise, leaves the exported listeners of the app state, the
\* version of the app state and the proxies as they were.
C39_FailedExportChangesNothing ==
  [][FailedExport =>
       /\ appState'.val.listeners = appState.val.listeners
       /\ appState'.ver = appState.ver
       /\ proxies' = proxies]_vars

\* The routing record of group g has the replicas and the assignments of
\* the group in the stored app state.
RoutingAgrees(g) ==
  LET rec == routingState[routingKey(g)].val
      grp == StoredGroup(appState, g)
  IN /\ rec.replicas = grp.replicas
     /\ Len(rec.assignments) = Cardinality(DOMAIN grp.assignments)
     /\ {rec.assignments[i] : i \in DOMAIN rec.assignments} =
           {grp.assignments[c] : c \in DOMAIN grp.assignments}

\* C40: between the operations of the manager the routing record of every
\* group agrees with the stored app state: it has the replicas of the group
\* and exactly the assignments of the group, with their components,
\* versions and slices.
C40_RoutingAgreesWithAppState == \A g \in Groups : RoutingAgrees(g)

\* Group g has two replicas and a routed component whose assignment was
\* recomputed three times; its routing record was written thrice.
C40_Witness ==
  /\ routingState[routingKey("g")].ver = 3
  /\ Len(StoredGroup(appState, "g").replicas) = 2
  /\ DOMAIN StoredGroup(appState, "g").assignments # {}
  /\ RoutingAgrees("g")

\* The slices of the assignment that replica a owns.
OwnedBy(asg, a) ==
  Cardinality({i \in DOMAIN asg.slices : asg.slices[i].replicas = <<a>>})

\* C38: in the routing record of a group that has a replica, every slice of
\* every assignment has one owner, a replica of the record; every replica
\* of the record owns a slice and none owns more than two, so that two
\* replicas differ by one slice at most.
C38_SlicesSpreadOverReplicas ==
  \A g \in Groups :
    LET rec == routingState[routingKey(g)].val
    IN Len(rec.replicas) >= 1 =>
         \A j \in DOMAIN rec.assignments :
           LET asg == rec.assignments[j]
           IN /\ \A i \in DOMAIN asg.slices :
                    /\ Len(asg.slices[i].replicas) = 1
                    /\ asg.slices[i].replicas[1] \in Range(rec.replicas)
              /\ \A a \in Range(rec.replicas) :
                    OwnedBy(asg, a) \in {1, 2}
              /\ \A a, b \in Range(rec.replicas) :
                    OwnedBy(asg, a) - OwnedBy(asg, b) \in {-1, 0, 1}

\* A record with three replicas and four slices, the first replica owning
\* two of them.
C38_Witness ==
  LET rec == routingState[routingKey("g")].val
  IN /\ Len(rec.replicas) = 3
     /\ Len(rec.assignments) = 1
     /\ Len(rec.assignments[1].slices) = 4
     /\ OwnedBy(rec.assignments[1], rec.replicas[1]) = 2
     /\ OwnedBy(rec.assignments[1], rec.replicas[3]) = 1

\* Caller r waits in getRoutingInfo for the routing record of group g.
BlockedOnRouting(r, g) ==
  /\ rd[r].st = "blocked"
  /\ rd[r].op = "getRoutingInfo"
  /\ rd[r].group = g

\* C35: a registerReplica or startComponent on a group h leaves the routing
\* record of every other group g as it was, value and version, and leaves
\* a caller that waits for g's record waiting; a caller that waits for g's
\* record returns only when the record has a version other than the one
\* the caller gave, that is after a write of g's routing key.
C35_RoutingIsolatedPerGroup ==
  [][\A g \in Groups :
       /\ (\E h \in Groups \ {g} : RecomputeOf(h)) =>
            /\ routingState'[routingKey(g)] = routingState[routingKey(g)]
            /\ \A r \in Readers :
                 BlockedOnRouting(r, g) =>
                   /\ rd'[r] = rd[r]
                   /\ VersionedReadReady(routingState'[routingKey(g)],
                                         rd[r].version)
                        = VersionedReadReady(routingState[routingKey(g)],
                                             rd[r].version)
       /\ \A r \in Readers :
            (BlockedOnRouting(r, g) /\ rd'[r].st = "returned") =>
               /\ routingState[routingKey(g)].ver # rd[r].version
               /\ rd'[r].reply.version = routingState[routingKey(g)].ver]_vars

\* A caller waits for the routing record of g at its version while the
\* routing record of main has been written.
C35_Witness ==
  /\ BlockedOnRouting("r1", "g")
  /\ rd["r1"].version = 1
  /\ routingState[routingKey("g")].ver = 1
  /\ routingState[routingKey("main")].ver = 1
  /\ appState.ver = 2

\* Caller r waits in getComponentsToStart.
BlockedOnComponents(r) ==
  /\ rd[r].st = "blocked"
  /\ rd[r].op = "getComponentsToStart"

\* The step is a startComponent of a component c its group does not have.
StartsNew(c) ==
  /\ appState' # appState
  /\ c \notin DOMAIN StoredGroup(appState, GroupOf(c)).components
  /\ \E k \in 0..Len(locations) :
        startComponent(GroupOf(c), c, IsRouted(c), k)

\* C34: a getComponentsToStart that is given the current version of the
\* app state waits; a startComponent of a component new to the group
\* stores an app state of another version that has the component, and the
\* waiting caller then returns, unless the manager's context is cancelled,
\* with a version other than the one it gave and a component set that has
\* the component; the set a caller gets is the component set of its group
\* in the app state it read.
C34_StartUnblocksComponentsToStart ==
  /\ [][\A r \in Readers :
          (/\ rd[r].st = "idle"
           /\ rd'[r].op = "getComponentsToStart"
           /\ rd'[r].st # "idle"
           /\ rd'[r].version = appState.ver
           /\ rd'[r].version # NoVersion) => rd'[r].st = "blocked"]_vars
  /\ [][\A c \in Components :
          StartsNew(c) =>
            /\ appState'.ver # appState.ver
            /\ c \in DOMAIN StoredGroup(appState', GroupOf(c)).components]_vars
  /\ \A r \in Readers, c \in Components :
       (/\ BlockedOnComponents(r)
        /\ appState.ver # rd[r].version
        /\ c \in DOMAIN StoredGroup(appState, rd[r].group).components)
          ~> (\/ ctxDone
              \/ /\ rd[r].st = "returned"
                 /\ rd[r].reply.version # rd[r].version
                 /\ c \in rd[r].reply.components)
  /\ [][\A r \in Readers :
          (/\ rd'[r].st = "returned"
           /\ rd[r].st # "returned"
           /\ rd'[r].op = "getComponentsToStart") =>
             /\ rd'[r].reply.version = appState.ver
             /\ rd'[r].reply.components =
                   DOMAIN StoredGroup(appState, rd'[r].group).components]_vars

\* The caller gave version 1, that of the app state with component c1,
\* waited, and returned with version 2 and the component c2 that was
\* started meanwhile.
C34_Witness ==
  /\ rd["r1"].st = "returned"
  /\ rd["r1"].op = "getComponentsToStart"
  /\ rd["r1"].waited
  /\ rd["r1"].version = 1
  /\ rd["r1"].reply.version = 2
  /\ rd["r1"].reply.components = {"c1", "c2"}
  /\ ~ctxDone

\* C36: the director takes the proxy's lock whoever holds the manager's
\* lock, and goes on to its end without it; no goroutine takes the
\* manager's lock while it holds the proxy's, so the two are nested only
\* as the manager's lock, then the proxy's; and whenever a lock is held
\* some goroutine can take a step.
C36_DirectorNeedsOnlyProxyLock ==
  /\ []((pg["d"].pc = "call" /\ pmu = NoHolder) => ENABLED pmuLock("d"))
  /\ [](pg["d"].pc = "locked" => ENABLED directorLen("d"))
  /\ [](pg["d"].pc = "pick" =>
          ENABLED (\E pick \in 1..MaxCalls : directorPick("d", pick)))
  /\ [](pg["d"].pc = "unlock" => ENABLED pmuUnlock("d"))
  /\ [][\A t \in ProxyGoroutines \cup Goroutines :
          (mu' = t /\ mu # t) => pmu # t]_vars
  /\ []((mu # NoHolder \/ pmu # NoHolder) => ENABLED NestedLockNext)

\* The director holds the proxy's lock and picks a backend while h1 holds
\* the manager's lock in registerReplica.
C36_Witness ==
  /\ mu = "h1"
  /\ pc["h1"] = "registerReplica"
  /\ pmu = "d"
  /\ pg["d"].pc = "pick"
  /\ proxy.backends = <<"worker1">>

\* C37: the reads a handler makes while it holds the manager's lock are
\* given the empty version and return at once; so, with the scheduler
\* fair to it, a goroutine that was given a registerReplica,
\* startComponent, exportListener or recv_metrics request takes the lock
\* and then returns, however many callers wait in getRoutingInfo or
\* getComponentsToStart.
C37_LockedHandlersComplete ==
  /\ [](\A t \in Goroutines :
          mu = t => /\ loadAppState(lockVersion).ready
                    /\ loadRoutingState("main", lockVersion).ready)
  /\ (\E handler \in LockedHandlers : pc["h1"] = Waiting(handler))
        ~> (pc["h1"] \in LockedHandlers /\ mu = "h1")
  /\ (pc["h1"] \in LockedHandlers) ~> (pc["h1"] = "idle" /\ mu # "h1")
  /\ [][\A handler \in LockedHandlers :
          pc["h1"] = Waiting(handler) => pc'["h1"] \in {Waiting(handler), handler}]_vars

\* Both callers wait, each with the current version of its record, and the
\* handler goroutine has returned from recv_metrics.
C37_Witness ==
  /\ rd["r1"].st = "blocked"
  /\ rd["r1"].op = "getComponentsToStart"
  /\ rd["r1"].version = appState.ver
  /\ rd["r2"].st = "blocked"
  /\ rd["r2"].op = "getRoutingInfo"
  /\ rd["r2"].version = routingState[routingKey("main")].ver
  /\ pc["h1"] = "idle"
  /\ lastWrite = [by |-> "h1", target |-> "metrics", held |-> TRUE]

====
